---- MODULE Spec2Model ----
\* A model of the incremental execution engine of Mounter:
\*   - the content-delta service      (src/mounter/delta.py)
\*   - the file-lock / witness store  (src/mounter/operation/files.py)
\*   - the build-step composer        (src/mounter/languages/cpp.py)
EXTENDS Integers, Sequences, FiniteSets, TLC

\* ---------------------------------------------------------------- bounds
MaxRuns == 3
MaxClock == 2
MaxWaiters == 2
MaxRefresh == 2
MaxApiRuns == 1
MaxLockRuns == 2
MaxBuildRuns == 2
MaxEdits == 1

\* ---------------------------------------------------------------- values
\* Python None as the value of a store's "time" / "hash" / "id".
Null == 0 - 1
\* The key is not in the store dictionary.
Missing == 0 - 2
NoId == Null
\* the content of a file that is not on disk
Absent == Null
\* two byte contents a file can have, A and B
Contents == {1, 2}

TYPE_NONE == ""
TYPE_FILE == "f"
TYPE_DIR == "d"

\* ---------------------------------------------------------------- paths
SourceFile == "main.cpp"
Header == "inc/h.h"
Unused == "inc/u.h"
IncDir == "inc"
IncSet == "inc/**/"
\* objDirectory, which is srcDirectory too, and the outputs of the build steps
ObjDir == "obj"
PreFile == "obj/main.cpp"
ObjFile == "obj/main.bc"
ObjFileD == "obj/main.d.bc"
ObjFileO == "obj/main.o.bc"
ExeFile == "bin/main.exe"
DllSource == "lib/a.dll"
DllTarget == "bin/a.dll"

OutPaths == {PreFile, ObjFile, ObjFileD, ObjFileO, ExeFile, DllTarget}
Files == {SourceFile, Header, Unused, DllSource} \cup OutPaths
Dirs == {IncDir, ObjDir}
Sets == {IncSet}
\* the paths the delta service can have a store for
Keys == (Files \ {ExeFile, DllTarget}) \cup Dirs \cup Sets
\* the paths the callers of the delta service ask about
DeltaKeys == {SourceFile, IncSet}

VARIABLES
    fs,        \* the file system: path -> [c: content (Absent = no file), t: mtime]
    clock,     \* the most recent modification time handed out
    phase,     \* "idle" between runs, "run" inside Workspace.run()
    run,       \* number of runs started
    items,     \* journal: FileDeltaChecker data["items"], path -> store
    jcounter,  \* journal: FileDeltaChecker data["counter"]
    counter,   \* FileDeltaChecker.__counter
    idmap,     \* FileDeltaChecker.__idmap, version id -> path
    chk,       \* FileDeltaChecker.__checkers, path -> PathCheckObject
    waiters,   \* coroutines awaiting a path's refreshTask, in registration order
    rets,      \* the calls that returned in the last step, in order
    alloc,     \* history: <<id, path, hash, run>> for every _newVersion, in order
    rcount,    \* history: refreshes started per path in this run
    cleared,   \* history: paths cleared in this run
    streak,    \* history: path -> <<hash, id>> last returned, while every refresh agreed
    since,     \* history: path -> id first returned since its content last changed
    nested,    \* layout: objDirectory lies inside the include directory
    cfg,       \* the flags and switches of the group in this run
    owner,     \* FileManagement.__owner, path -> owner type id
    wstore,    \* journal: FileManagement.__store, owner type id -> path -> witness
    lres,      \* history: the last lock or tear-down and the tables before it
    dec,       \* history: step -> its decision in this run and what it was based on
    failed,    \* a step of this run raised
    prevClean, \* history: in the previous run every step was up to date or stable
    changed,   \* history: the file system or the flags changed since the previous run
    edits,     \* number of changes made to the file system between runs
    kinds,     \* history: what differs from when the previous run ended
    workspace, \* the Workspace: its registries, its topology and its position
    stack,     \* the calls in progress below the driver, innermost last
    raising,   \* an exception is on its way up the stack
    driver,    \* where the driver is: "discovery", "running", "returned", "raised"
    rt,        \* the journal of Persistence and the futures of AsyncioLoop
    hist,      \* history: the events of the execution phase, in order
    addedBy,   \* history: <<module, dependency>> for every add() of an activation
    activated, \* history: the instances whose activation began, in order
    lastAdd,   \* history: the add() calls of the driver's or hook's last add()
    appends,   \* number of continuations registered by the driver or the project
    tasks,     \* number of futures handed to AsyncioLoop.completeLater
    topoAtRun, \* history: the modules of the topology when run() was called
    pfile,     \* the persistence file on disk, as the JSON object it holds
    ptime,     \* time.time()
    proot,     \* Persistence._root
    pres,      \* history: the last _loadPersistenceFile, what it saw and how it ended
    fut,       \* the futures: result, queue of continuations, whether the queue is open
    gat,       \* the Gather over some of the futures
    tk,        \* the Task and where its coroutine stands
    lz,        \* the Lazy and its thunk
    flog,      \* history: the continuations invoked and the steps of the task, in order
    fup,       \* history: the exception that left the caller's last call, "" if none
    fregs,     \* history: the continuations the caller registered, in order
    memo,      \* the caches of a @once method and an @operation method of one object
    starts,    \* history: how often the body of each was started, per argument
    ocalls,    \* history: the calls of the two methods and what the caller got
    br,        \* the Bridge: __isShutdown, __tasks, __activeTaskCount, where run() is
    bt,        \* history: the bridge calls, what each returned and what its work gave
    rl,        \* RedLight.__redLight and the bridge task of its delay
    ready,     \* the callbacks the event loop has been given with call_soon, in order
    rw,        \* history: each await of the red light and how it was resumed
    pu,        \* the progress units: state, and the exception __exit__ was called with
    sp,        \* the last call of Path.isSubpath: receiver, argument, result
    stp,       \* one build step over its runs: stored witness, output, command in flight
    sr         \* a StreamReaderProtocol, its readers and what was delivered and read

deltaVars == <<items, jcounter, counter, idmap, chk, waiters, rets, alloc, rcount,
               cleared, streak, since>>
envVars == <<fs, clock, phase, run>>
buildCore == <<nested, cfg, owner, wstore, lres, dec, failed, prevClean, changed, edits,
               kinds>>
wsVars == <<workspace, stack, raising, driver, rt, hist, addedBy, activated, lastAdd, appends,
            tasks, topoAtRun>>
persVars == <<pfile, ptime, proot, pres>>
futVars == <<fut, gat, tk, lz, flog, fup, fregs, memo, starts, ocalls, br, bt>>
redVars == <<rl, ready, rw>>
auxVars == <<redVars, pu, sp, stp, sr>>
opVars == <<persVars, futVars, auxVars>>
buildVars == <<buildCore, wsVars, opVars>>
vars == <<fs, clock, phase, run, items, jcounter, counter, idmap, chk, waiters, rets,
          alloc, rcount, cleared, streak, since, nested, cfg, owner, wstore, lres, dec,
          failed, prevClean, changed, edits, kinds, wsVars, opVars>>

\* ---------------------------------------------------------------- digests
\* hashlib.md5 is modelled as collision free: distinct inputs, distinct digests.
Md5File(c) == 2 * c + 1

\* the name of a path as the digests see it
PathCode(p) ==
    CASE p = SourceFile -> 1 [] p = Header -> 2 [] p = Unused -> 3
      [] p = IncDir -> 4 [] p = ObjDir -> 5 [] p = PreFile -> 6
      [] p = ObjFile -> 7 [] p = ObjFileD -> 8 [] p = ObjFileO -> 9
      [] p = DllSource -> 10 [] OTHER -> 11

\* the digest of the names in a directory listing
RECURSIVE Md5Names(_)
Md5Names(ps) ==
    IF ps = <<>> THEN 1 ELSE 2 ^ PathCode(ps[1]) + Md5Names(Tail(ps))

\* ---------------------------------------------------------------- file system
isPresent(p) == p \in Dirs \/ fs[p].c # Absent

\* the entries a directory can have
DirEntries(p) ==
    IF p = IncDir THEN <<Header, Unused>> \o (IF nested THEN <<ObjDir>> ELSE <<>>)
    ELSE <<PreFile, ObjFile, ObjFileD, ObjFileO>>

getPathType(p, deleted) ==
    IF deleted THEN TYPE_NONE
    ELSE IF p \in Dirs THEN TYPE_DIR
    ELSE IF p \in Files /\ fs[p].c # Absent THEN TYPE_FILE
    ELSE TYPE_NONE

\* Path.getChildren(deterministic = True)
getChildren(p) == SelectSeq(DirEntries(p), isPresent)

\* PathSet.findAll(deterministic = True): "inc/**/" matches directories only
findAll(k) == IF nested THEN <<IncDir, ObjDir>> ELSE <<IncDir>>

\* the digest of the paths and hashes of the members of a set
RECURSIVE Md5Set(_, _)
Md5Set(sub, hashOf) ==
    IF sub = <<>> THEN 0
    ELSE PathCode(sub[1]) + 16 * hashOf[sub[1]] + 32768 * Md5Set(Tail(sub), hashOf)

SeqToSet(s) == {s[i] : i \in 1..Len(s)}

\* ---------------------------------------------------------------- stores
EmptyStore == [time |-> Missing, hash |-> Missing, id |-> NoId]
NoChecker == [made |-> FALSE, task |-> "none", rev |-> {}, subpaths |-> <<>>]

RevGet(rev, h) ==
    IF \E pr \in rev : pr[1] = h THEN (CHOOSE pr \in rev : pr[1] = h)[2] ELSE NoId
RevPut(rev, h, v) == {pr \in rev : pr[1] # h} \cup {<<h, v>>}

\* The delta service's state as one value, so that a handler is a function of it.
D == [items |-> items, counter |-> counter, idmap |-> idmap, chk |-> chk,
      alloc |-> alloc, rcount |-> rcount, streak |-> streak, since |-> since,
      run |-> run]

SetD(d) ==
    /\ items' = d.items
    /\ counter' = d.counter
    /\ idmap' = d.idmap
    /\ chk' = d.chk
    /\ alloc' = d.alloc
    /\ rcount' = d.rcount
    /\ streak' = d.streak
    /\ since' = d.since

\* a checker that starts with an empty revisions table
PathCheckObject_noSeed(store) ==
    [made |-> TRUE, task |-> "none", rev |-> {}, subpaths |-> <<>>]

\* PathCheckObject.__init__
PathCheckObject(store) ==
    [made |-> TRUE, task |-> "none",
     rev |-> IF store.id # NoId /\ store.hash # Missing
             THEN {<<store.hash, store.id>>} ELSE {},
     subpaths |-> <<>>]

\* FileDeltaChecker.lookupCheckerByPath
lookupCheckerByPath(d, p) ==
    IF d.chk[p].made THEN d ELSE [d EXCEPT !.chk[p] = PathCheckObject(d.items[p])]

\* FileDeltaChecker._newVersion
newVersion(d, p) ==
    [d EXCEPT !.idmap = [v \in DOMAIN d.idmap \cup {d.counter} |->
                            IF v = d.counter THEN p ELSE d.idmap[v]],
              !.counter = d.counter + 1]

\* a digest of a file that takes in its modification time
refreshPathHash_stamp(d, p, deleted) ==
    LET t == getPathType(p, deleted)
        d0 == [d EXCEPT !.chk[p].subpaths = <<>>]
    IN  IF t = TYPE_NONE
        THEN [d0 EXCEPT !.items[p].time = Null, !.items[p].hash = Null]
        ELSE IF fs[p].t = d0.items[p].time THEN d0
        ELSE IF t = TYPE_FILE
        THEN [d0 EXCEPT !.items[p].hash = Md5File(fs[p].c) + 64 * fs[p].t,
                        !.items[p].time = fs[p].t]
        ELSE [d0 EXCEPT !.chk[p].subpaths = getChildren(p),
                        !.items[p].hash = Md5Names(getChildren(p)),
                        !.items[p].time = fs[p].t]

\* PathCheckObject.__refreshPathHash, the digest of a file computed in place
refreshPathHash(d, p, deleted) ==
    LET t == getPathType(p, deleted)
        d0 == [d EXCEPT !.chk[p].subpaths = <<>>]
    IN  IF t = TYPE_NONE
        THEN [d0 EXCEPT !.items[p].time = Null, !.items[p].hash = Null]
        ELSE IF fs[p].t = d0.items[p].time THEN d0
        ELSE IF t = TYPE_FILE
        THEN [d0 EXCEPT !.items[p].hash = Md5File(fs[p].c), !.items[p].time = fs[p].t]
        ELSE [d0 EXCEPT !.chk[p].subpaths = getChildren(p),
                        !.items[p].hash = Md5Names(getChildren(p)),
                        !.items[p].time = fs[p].t]

\* a refresh that leaves the stored id alone
finishRefresh_keepId(d, p) ==
    [d EXCEPT !.chk[p].task = "done",
              !.streak[p] = IF d.streak[p] # <<>> /\ d.streak[p][1] # d.items[p].hash
                            THEN <<>> ELSE d.streak[p]]

\* the version lookup of PathCheckObject.__refreshHashAndVersion, and the
\* bookkeeping of a finished refresh task
finishRefresh(d, p) ==
    LET h == d.items[p].hash
        vn == RevGet(d.chk[p].rev, h)
    IN  [d EXCEPT !.items[p].id = vn,
                  !.chk[p].task = "done",
                  !.streak[p] = IF d.streak[p] # <<>> /\ d.streak[p][1] # h
                                THEN <<>> ELSE d.streak[p]]

\* PathCheckObject.hintDeleted: a refresh with flags = ("deleted",), joined if
\* the checker has a refresh task already
hintDeleted(d, p) ==
    LET d0 == lookupCheckerByPath(d, p)
    IN  IF d0.chk[p].task # "none" THEN d0
        ELSE finishRefresh(
                 refreshPathHash([d0 EXCEPT !.rcount[p] = d0.rcount[p] + 1], p, TRUE), p)

\* the loop over the sub-paths that left the listing; awaiting a running refresh
\* inside aggressiveTask raises, which ends the loop
RECURSIVE hintDeletedAll(_, _)
hintDeletedAll(d, ps) ==
    IF ps = <<>> THEN d
    ELSE IF d.chk[ps[1]].task = "running" THEN d
    ELSE hintDeletedAll(hintDeleted(d, ps[1]), Tail(ps))

\* PathCheckObject.__refreshHashAndVersion for a file or directory
refreshPath(d, p, deleted) ==
    LET old == d.chk[p].subpaths
        d1 == refreshPathHash([d EXCEPT !.rcount[p] = d.rcount[p] + 1], p, deleted)
        d2 == finishRefresh(d1, p)
        gone == SelectSeq(old, LAMBDA q : q \notin SeqToSet(d2.chk[p].subpaths))
    IN  hintDeletedAll(d2, gone)

\* getHash of the sub-paths of a set, each through its own checker
RECURSIVE refreshChildren(_, _)
refreshChildren(d, ps) ==
    IF ps = <<>> THEN d
    ELSE LET d0 == lookupCheckerByPath(d, ps[1])
             d1 == IF d0.chk[ps[1]].task = "none" THEN refreshPath(d0, ps[1], FALSE)
                   ELSE d0
         IN  refreshChildren(d1, Tail(ps))

\* PathCheckObject.__refreshSetHash and __refreshHashAndVersion for a path set
refreshSet(d, k) ==
    LET old == d.chk[k].subpaths
        sub == findAll(k)
        d1 == refreshChildren([d EXCEPT !.rcount[k] = d.rcount[k] + 1,
                                        !.chk[k].subpaths = sub], sub)
        d2 == [d1 EXCEPT !.items[k].hash =
                   Md5Set(sub, [q \in Keys |-> d1.items[q].hash])]
        d3 == finishRefresh(d2, k)
        gone == SelectSeq(old, LAMBDA q : q \notin SeqToSet(sub))
    IN  hintDeletedAll(d3, gone)

refreshHashAndVersion(d, k) ==
    IF k \in Sets THEN refreshSet(d, k) ELSE refreshPath(d, k, FALSE)

\* the refresh of a file has to read the file in the thread pool
needsBackground(d, k) ==
    /\ k \in Files
    /\ getPathType(k, FALSE) = TYPE_FILE
    /\ d.items[k].time # fs[k].t

Ret(op, k, arg, ver, ok, d, fresh) ==
    [op |-> op, key |-> k, arg |-> arg, ver |-> ver, ok |-> ok,
     hash |-> d.items[k].hash, fresh |-> fresh,
     cont |-> d.streak[k] # <<>>,
     sver |-> IF d.streak[k] # <<>> THEN d.streak[k][2] ELSE NoId,
     first |-> d.since[k]]

\* a getVersion that allocates whether or not the store has an id
getVersion_alwaysNew(d, k) ==
    LET h == d.items[k].hash
        c == d.counter
        d1 == [newVersion(d, k) EXCEPT
                  !.chk[k].rev = RevPut(d.chk[k].rev, h, c),
                  !.items[k].id = c,
                  !.alloc = Append(d.alloc, <<c, k, h, d.run>>)]
    IN  [d |-> [d1 EXCEPT !.streak[k] = <<h, c>>,
                          !.since[k] = IF d.since[k] = NoId THEN c ELSE d.since[k]],
         ret |-> Ret("query", k, NoId, c, TRUE, d, TRUE)]

\* PathCheckObject.getVersion after its refresh
getVersion(d, k) ==
    LET vn == d.items[k].id
        h == d.items[k].hash
        c == d.counter
        d1 == IF vn # NoId THEN d
              ELSE [newVersion(d, k) EXCEPT
                        !.chk[k].rev = RevPut(d.chk[k].rev, h, c),
                        !.items[k].id = c,
                        !.alloc = Append(d.alloc, <<c, k, h, d.run>>)]
        v == IF vn # NoId THEN vn ELSE c
    IN  [d |-> [d1 EXCEPT !.streak[k] = <<h, v>>,
                          !.since[k] = IF d.since[k] = NoId THEN v ELSE d.since[k]],
         ret |-> Ret("query", k, NoId, v, TRUE, d, vn = NoId)]

\* PathCheckObject.testVersion after its refresh
testVersion(d, k, version) ==
    [d |-> d, ret |-> Ret("test", k, version, NoId, d.items[k].id = version, d, FALSE)]

\* the rest of a caller's coroutine once the refresh task is done
resume(d, k, w) ==
    IF w.op = "query" THEN getVersion(d, k) ELSE testVersion(d, k, w.arg)

\* Completion._complete: the continuations run in registration order
RECURSIVE runWaiters(_, _, _, _)
runWaiters(d, k, ws, out) ==
    IF ws = <<>> THEN [d |-> d, rets |-> out]
    ELSE LET r == resume(d, k, ws[1])
         IN  runWaiters(r.d, k, Tail(ws), Append(out, r.ret))

\* ---------------------------------------------------------------- delta: steps
\* a call awaited to its end before anything else runs: __refresh, with the
\* digest of a file computed in place, and the rest of the caller
callNow(d, k, w) ==
    LET d0 == lookupCheckerByPath(d, k)
        d1 == IF d0.chk[k].task = "none" THEN refreshHashAndVersion(d0, k) ELSE d0
    IN  resume(d1, k, w)

\* a __refresh that does not keep a finished refresh task
Call_noMemo(k, w) ==
    LET d0 == lookupCheckerByPath(D, k)
        t == d0.chk[k].task
        d1 == [d0 EXCEPT !.chk[k].task = "none"]
    IN  IF t = "running"
        THEN /\ Len(waiters[k]) < MaxWaiters
             /\ SetD(d0)
             /\ waiters' = [waiters EXCEPT ![k] = Append(@, w)]
             /\ rets' = <<>>
        ELSE IF needsBackground(d0, k)
        THEN /\ SetD([d0 EXCEPT !.chk[k].task = "running",
                                !.chk[k].subpaths = <<>>,
                                !.rcount[k] = d0.rcount[k] + 1])
             /\ waiters' = [waiters EXCEPT ![k] = <<w>>]
             /\ rets' = <<>>
        ELSE /\ SetD(callNow(d1, k, w).d)
             /\ rets' = <<callNow(d1, k, w).ret>>
             /\ UNCHANGED waiters

\* PathCheckObject.__refresh as entered by getVersion / testVersion, among
\* concurrent callers
Call(k, w) ==
    LET d0 == lookupCheckerByPath(D, k)
        t == d0.chk[k].task
    IN  IF t = "running"
        THEN /\ Len(waiters[k]) < MaxWaiters
             /\ SetD(d0)
             /\ waiters' = [waiters EXCEPT ![k] = Append(@, w)]
             /\ rets' = <<>>
        ELSE IF t = "none" /\ needsBackground(d0, k)
        THEN /\ SetD([d0 EXCEPT !.chk[k].task = "running",
                                !.chk[k].subpaths = <<>>,
                                !.rcount[k] = d0.rcount[k] + 1])
             /\ waiters' = [waiters EXCEPT ![k] = <<w>>]
             /\ rets' = <<>>
        ELSE /\ SetD(callNow(D, k, w).d)
             /\ rets' = <<callNow(D, k, w).ret>>
             /\ UNCHANGED waiters

AllocIds == {alloc[i][1] : i \in 1..Len(alloc)}
Origin(v) == CHOOSE i \in 1..Len(alloc) : alloc[i][1] = v

\* FileDeltaChecker.test for an id that is not in __idmap
testUnknown(v) ==
    [testVersion(D, alloc[Origin(v)][2], v).ret EXCEPT !.ok = FALSE]

\* FileDeltaChecker.query, awaited
QueryNow(k) ==
    /\ phase = "run"
    /\ SetD(callNow(D, k, [op |-> "query", arg |-> NoId]).d)
    /\ rets' = <<callNow(D, k, [op |-> "query", arg |-> NoId]).ret>>
    /\ UNCHANGED <<envVars, jcounter, cleared, waiters, buildVars>>

\* FileDeltaChecker.test, awaited
TestNow(v) ==
    /\ phase = "run"
    /\ IF v \in DOMAIN idmap
       THEN /\ SetD(callNow(D, idmap[v], [op |-> "test", arg |-> v]).d)
            /\ rets' = <<callNow(D, idmap[v], [op |-> "test", arg |-> v]).ret>>
       ELSE /\ rets' = <<testUnknown(v)>>
            /\ UNCHANGED <<items, counter, idmap, chk, alloc, rcount, streak, since>>
    /\ UNCHANGED <<envVars, jcounter, cleared, waiters, buildVars>>

\* FileDeltaChecker.query among concurrent callers
Query(k) ==
    /\ phase = "run"
    /\ Call(k, [op |-> "query", arg |-> NoId])
    /\ UNCHANGED <<envVars, jcounter, cleared, buildVars>>

\* FileDeltaChecker.test among concurrent callers
Test(v) ==
    /\ phase = "run"
    /\ IF v \in DOMAIN idmap
       THEN Call(idmap[v], [op |-> "test", arg |-> v])
       ELSE /\ rets' = <<testUnknown(v)>>
            /\ UNCHANGED <<items, counter, idmap, chk, alloc, rcount, streak, since,
                           waiters>>
    /\ UNCHANGED <<envVars, jcounter, cleared, buildVars>>

\* the thread pool hands back the digest of file p: the refresh task completes
BackgroundDone(p) ==
    /\ phase = "run"
    /\ chk[p].task = "running"
    /\ LET d1 == finishRefresh(
                     [D EXCEPT !.items[p].hash = Md5File(fs[p].c),
                               !.items[p].time = fs[p].t], p)
           r == runWaiters(d1, p, waiters[p], <<>>)
       IN  /\ SetD(r.d)
           /\ rets' = r.rets
    /\ waiters' = [waiters EXCEPT ![p] = <<>>]
    /\ UNCHANGED <<envVars, jcounter, cleared, buildVars>>

\* PathCheckObject.clear
RECURSIVE clearAll(_, _)
clearAll(c, ps) ==
    IF ps = <<>> THEN c
    ELSE clearAll([c EXCEPT ![ps[1]].task = "none"], Tail(ps))

\* FileDeltaChecker.clear
Clear(k) ==
    /\ phase = "run"
    /\ LET d0 == lookupCheckerByPath(D, k)
           sub == IF k \in Sets THEN d0.chk[k].subpaths ELSE <<>>
       IN  /\ d0.chk[k].task # "running"
           /\ d0.rcount[k] < MaxRefresh
           /\ \A i \in 1..Len(sub) : d0.chk[sub[i]].task # "running"
           /\ chk' = clearAll(d0.chk, <<k>> \o sub)
           /\ cleared' = cleared \cup {k} \cup SeqToSet(sub)
    /\ rets' = <<>>
    /\ UNCHANGED <<envVars, items, jcounter, counter, idmap, waiters, alloc, rcount,
                   streak, since, buildVars>>

\* FileDeltaChecker.run up to self._downstream()
deltaEnter ==
    /\ counter' = jcounter
    /\ chk' = [k \in Keys |-> IF items[k].id # NoId THEN PathCheckObject(items[k])
                              ELSE NoChecker]
    /\ idmap' = [v \in {items[k].id : k \in {q \in Keys : items[q].id # NoId}} |->
                    CHOOSE k \in Keys : items[k].id = v]
    /\ rcount' = [k \in Keys |-> 0]
    /\ cleared' = {}
    /\ waiters' = [k \in Keys |-> <<>>]
    /\ rets' = <<>>
    /\ UNCHANGED <<items, jcounter, alloc, streak, since>>

\* a run of the delta service alone begins
StartRun(limit) ==
    /\ phase = "idle"
    /\ run < limit
    /\ phase' = "run"
    /\ run' = run + 1
    /\ deltaEnter
    /\ UNCHANGED <<fs, clock, buildVars>>

\* the finally block of FileDeltaChecker.run; exc: self._downstream() raised
deltaExit(exc) ==
    /\ jcounter' = counter
    /\ chk' = [k \in Keys |-> NoChecker]
    /\ waiters' = [k \in Keys |-> <<>>]
    /\ rets' = <<[op |-> IF exc THEN "raise" ELSE "end"]>>
    /\ rcount' = [k \in Keys |-> 0]
    /\ cleared' = {}
    /\ UNCHANGED <<items, counter, idmap, alloc, streak, since>>

\* a run that saves the counter only when it ends normally
DeltaEndRun_noSaveOnRaise(exc) ==
    /\ phase = "run"
    /\ exc \/ \A k \in Keys : chk[k].task # "running"
    /\ phase' = "idle"
    /\ jcounter' = IF exc THEN jcounter ELSE counter
    /\ chk' = [k \in Keys |-> NoChecker]
    /\ waiters' = [k \in Keys |-> <<>>]
    /\ rets' = <<[op |-> IF exc THEN "raise" ELSE "end"]>>
    /\ rcount' = [k \in Keys |-> 0]
    /\ cleared' = {}
    /\ UNCHANGED <<fs, clock, run, items, counter, idmap, alloc, streak, since,
                   buildVars>>

\* a run of the delta service alone ends, normally or by an exception
DeltaEndRun(exc) ==
    /\ phase = "run"
    /\ exc \/ \A k \in Keys : chk[k].task # "running"
    /\ phase' = "idle"
    /\ deltaExit(exc)
    /\ UNCHANGED <<fs, clock, run, buildVars>>

\* ---------------------------------------------------------------- environment
\* between two runs somebody writes, touches or creates a file
EnvWrite(f, c) ==
    /\ phase = "idle"
    /\ clock < MaxClock
    /\ clock' = clock + 1
    /\ fs' = [fs EXCEPT ![f] = [c |-> c, t |-> clock + 1]]
    /\ since' = IF fs[f].c = c THEN since ELSE [since EXCEPT ![f] = NoId]
    /\ UNCHANGED <<phase, run, items, jcounter, counter, idmap, chk, waiters,
                   alloc, rcount, cleared, streak>>
    /\ rets' = <<>>
    /\ UNCHANGED buildVars

\* between two runs somebody deletes a file
EnvDelete(f) ==
    /\ phase = "idle"
    /\ fs[f].c # Absent
    /\ fs' = [fs EXCEPT ![f] = [c |-> Absent, t |-> 0]]
    /\ since' = [since EXCEPT ![f] = NoId]
    /\ UNCHANGED <<clock, phase, run, items, jcounter, counter, idmap, chk, waiters,
                   alloc, rcount, cleared, streak>>
    /\ rets' = <<>>
    /\ UNCHANGED buildVars

\* between two runs a header that nothing includes is added to or removed from
\* the include directory, which changes the directory's listing and mtime
EnvToggleUnused ==
    /\ phase = "idle"
    /\ clock < MaxClock
    /\ clock' = clock + 1
    /\ fs' = [fs EXCEPT ![Unused] = IF fs[Unused].c = Absent
                                     THEN [c |-> 1, t |-> clock + 1]
                                     ELSE [c |-> Absent, t |-> 0],
                        ![IncDir] = [c |-> 1, t |-> clock + 1]]
    /\ since' = [since EXCEPT ![Unused] = NoId, ![IncDir] = NoId, ![IncSet] = NoId]
    /\ UNCHANGED <<phase, run, items, jcounter, counter, idmap, chk, waiters,
                   alloc, rcount, cleared, streak>>
    /\ rets' = <<>>
    /\ UNCHANGED buildVars

\* ---------------------------------------------------------------- witness store
\* persistenceTypeId of the two kinds of object that lock paths
ClangOwner == "mounter.languages.cpp.ClangCppGroup"
FileOwner == "mounter.operation.files.FileManagement"
OwnerTypes == {ClangOwner, FileOwner}

\* dict()
EmptyFn == [x \in {} |-> 0]

\* a witness dictionary: the keys it has, and their values
EmptyDict ==
    [keys |-> {}, args |-> <<>>, dependencyHash |-> <<>>, includeHash |-> <<>>,
     stable |-> FALSE, debug |-> FALSE, optimalize |-> FALSE, sourceHash |-> NoId]

has(data, key) == key \in data.keys
dictSet(data, key, v) == [data EXCEPT ![key] = v, !.keys = @ \cup {key}]

Put(f, k, v) == [x \in DOMAIN f \cup {k} |-> IF x = k THEN v ELSE f[x]]
Drop(f, S) == [x \in DOMAIN f \ S |-> f[x]]

\* a lock that takes the path over from whoever has it
lock_noAssert(ow, ws, key, id) ==
    LET ws1 == IF id \in DOMAIN ws THEN ws ELSE Put(ws, id, EmptyFn)
        ws2 == IF key \in DOMAIN ws1[id] THEN ws1
               ELSE Put(ws1, id, Put(ws1[id], key, EmptyDict))
    IN  [ok |-> TRUE, owner |-> Put(ow, key, id), store |-> ws2]

\* FileManagement.lock; ok = FALSE: the assertion raised
lock(ow, ws, key, id) ==
    IF key \in DOMAIN ow THEN [ok |-> FALSE, owner |-> ow, store |-> ws]
    ELSE LET ws1 == IF id \in DOMAIN ws THEN ws ELSE Put(ws, id, EmptyFn)
             ws2 == IF key \in DOMAIN ws1[id] THEN ws1
                    ELSE Put(ws1, id, Put(ws1[id], key, EmptyDict))
         IN  [ok |-> TRUE, owner |-> Put(ow, key, id), store |-> ws2]

\* self.__owner.get(v, k)
ownerGet(ow, v, default) == IF v \in DOMAIN ow THEN ow[v] ELSE default

\* a tear-down that takes a path nobody locked for a path somebody else locked
teardown_noDefault(ws, ow) ==
    [k \in DOMAIN ws |-> Drop(ws[k], {v \in DOMAIN ws[k] : ownerGet(ow, v, "") # k})]

\* the finally block of FileManagement.run
teardown(ws, ow) ==
    [k \in DOMAIN ws |-> Drop(ws[k], {v \in DOMAIN ws[k] : ownerGet(ow, v, k) # k})]

NoResult == [op |-> "none"]

\* ---------------------------------------------------------------- locks: steps
\* the paths and the witness values the lock steps use
LockPaths == {ExeFile, DllTarget}
LockValues == {0, 1}

\* FileManagement.run up to self._downstream()
LockStartRun ==
    /\ phase = "idle"
    /\ run < MaxLockRuns
    /\ phase' = "run"
    /\ run' = run + 1
    /\ owner' = EmptyFn
    /\ lres' = NoResult
    /\ UNCHANGED <<fs, clock, deltaVars, nested, wsVars, opVars, cfg, wstore, dec, failed, prevClean,
                   changed, edits, kinds>>

\* somebody calls FileManagement.lock
Lock(path, id) ==
    /\ phase = "run"
    /\ owner' = lock(owner, wstore, path, id).owner
    /\ wstore' = lock(owner, wstore, path, id).store
    /\ lres' = [op |-> "lock", key |-> path, id |-> id,
                ok |-> lock(owner, wstore, path, id).ok,
                ownerBefore |-> owner, storeBefore |-> wstore]
    /\ UNCHANGED <<envVars, deltaVars, nested, wsVars, opVars, cfg, dec, failed, prevClean, changed,
                   edits, kinds>>

\* the owner of a path writes into the dictionary lock gave it
WriteWitness(path, v) ==
    /\ phase = "run"
    /\ path \in DOMAIN owner
    /\ wstore' = [wstore EXCEPT ![owner[path]][path] = dictSet(@, "sourceHash", v)]
    /\ lres' = NoResult
    /\ UNCHANGED <<envVars, deltaVars, nested, wsVars, opVars, cfg, owner, dec, failed, prevClean,
                   changed, edits, kinds>>

\* the finally block of FileManagement.run, after a normal end or an exception
LockEndRun ==
    /\ phase = "run"
    /\ phase' = "idle"
    /\ wstore' = teardown(wstore, owner)
    /\ lres' = [op |-> "teardown", ownerBefore |-> owner, storeBefore |-> wstore]
    /\ UNCHANGED <<fs, clock, run, deltaVars, nested, wsVars, opVars, cfg, owner, dec, failed,
                   prevClean, changed, edits, kinds>>

\* ---------------------------------------------------------------- build: values
Steps == {"pre", "compile", "link", "copy"}

\* compile flags, numbered in the order sorted() puts them:
\* 1 "-Wno-unused", 2 "-lm", 3 "-std=c++20"
PreFlags == {1, 3}
LinkFlags == {1, 2, 3}

\* the switches and flags a run can be started with
Plain == [debug |-> FALSE, optimalize |-> FALSE, flags |-> {1, 3}]
Debug == [debug |-> TRUE, optimalize |-> FALSE, flags |-> {1, 3}]
Tuned == [debug |-> FALSE, optimalize |-> TRUE, flags |-> {2, 3}]
Configs == {Plain, Debug, Tuned}

RECURSIVE sorted(_)
sorted(S) ==
    IF S = {} THEN <<>>
    ELSE LET m == CHOOSE x \in S : \A y \in S : x <= y
         IN  <<m>> \o sorted(S \ {m})

\* an object path that does not tell the switches
objectPath_oneName(c) == ObjFile

\* the object file of __compile: the extension carries the switches
objectPath(c) ==
    IF c.optimalize THEN ObjFileO ELSE IF c.debug THEN ObjFileD ELSE ObjFile

\* what the commands write
PreContent == 10 + 2 * fs[SourceFile].c + fs[Header].c
ObjContent(c) ==
    100 + 4 * fs[PreFile].c + (IF c.debug THEN 1 ELSE 0) + (IF c.optimalize THEN 2 ELSE 0)
ExeContent(c) == 1000 + fs[objectPath(c)].c

\* the file system after a command wrote file p
written(p, c) ==
    LET f1 == [fs EXCEPT ![p] = [c |-> c, t |-> clock + 1]]
    IN  IF fs[p].c = Absent /\ p \in SeqToSet(DirEntries(ObjDir))
        THEN [f1 EXCEPT ![ObjDir].t = clock + 1] ELSE f1

\* the file system after file p was deleted
deleted(p) ==
    LET f1 == [fs EXCEPT ![p] = [c |-> Absent, t |-> 0]]
    IN  IF p \in SeqToSet(DirEntries(ObjDir))
        THEN [f1 EXCEPT ![ObjDir].t = clock + 1] ELSE f1

\* history: the ids handed out for p and for what lists p are void if p changes
touch(sn, p, c) ==
    IF fs[p].c = c THEN sn
    ELSE IF (fs[p].c = Absent \/ c = Absent) /\ p \in SeqToSet(DirEntries(ObjDir))
    THEN [sn EXCEPT ![p] = NoId, ![ObjDir] = NoId, ![IncSet] = NoId]
    ELSE [sn EXCEPT ![p] = NoId]

QueryOp == [op |-> "query", arg |-> NoId]

\* FileDeltaChecker.test, awaited
deltaTest(d, v) ==
    LET result(r) == [d |-> r.d, ok |-> r.ret.ok]
    IN  IF v \in DOMAIN d.idmap
        THEN result(callNow(d, d.idmap[v], [op |-> "test", arg |-> v]))
        ELSE [d |-> d, ok |-> FALSE]

\* gatherAnd over the tests of a list of version ids: all of them run
RECURSIVE gatherAnd(_, _)
gatherAnd(d, vs) ==
    IF vs = <<>> THEN [d |-> d, ok |-> TRUE]
    ELSE LET r == deltaTest(d, vs[1])
             rest == gatherAnd(r.d, Tail(vs))
         IN  [d |-> rest.d, ok |-> r.ok /\ rest.ok]

\* the conditions of __doPreprocess that come before the tests
preChanged(data, dependencyHash, args) ==
    \/ ~has(data, "dependencyHash") \/ data.dependencyHash # dependencyHash
    \/ ~has(data, "args") \/ data.args # args
    \/ ~(has(data, "stable") /\ data.stable)

\* the condition of __compile
compileMustBuild(data, c, dependencyHash, args, present) ==
    \/ c.debug /\ ~(has(data, "debug") /\ data.debug)
    \/ ~has(data, "args") \/ data.args # args
    \/ (IF has(data, "optimalize") THEN data.optimalize ELSE FALSE) # c.optimalize
    \/ ~(has(data, "stable") /\ data.stable)
    \/ ~has(data, "dependencyHash") \/ data.dependencyHash # dependencyHash
    \/ ~present

\* the condition of link
linkMustBuild(data, c, dependencyHash, args, present) ==
    \/ (IF has(data, "debug") THEN data.debug ELSE FALSE) # c.debug
    \/ ~has(data, "args") \/ data.args # args
    \/ (IF has(data, "optimalize") THEN data.optimalize ELSE FALSE) # c.optimalize
    \/ ~(has(data, "stable") /\ data.stable)
    \/ ~has(data, "dependencyHash") \/ data.dependencyHash # dependencyHash
    \/ ~present

\* the condition of copyFile
copyMustCopy(data, sourceHash, present) ==
    \/ ~has(data, "sourceHash") \/ data.sourceHash # sourceHash
    \/ ~present

\* the five keys __compile and link write in their finally block
flagWitness(data, c, args, stable, dependencyHash) ==
    dictSet(dictSet(dictSet(dictSet(dictSet(data,
        "debug", c.debug), "optimalize", c.optimalize), "args", args),
        "stable", stable), "dependencyHash", dependencyHash)

\* history: what a step decided and what it had before it
NoDecision ==
    [made |-> FALSE, skip |-> FALSE, out |-> "", present |-> FALSE,
     stored |-> EmptyDict, now |-> EmptyDict, tests |-> TRUE]
Decision(must, out, present, stored, now, tests) ==
    [made |-> TRUE, skip |-> ~must, out |-> IF must THEN out ELSE "skip",
     present |-> present, stored |-> stored, now |-> now, tests |-> tests]

\* ---------------------------------------------------------------- build: steps
Outcomes == {"stable", "unstable", "fail"}

\* ClangCppGroup.__doPreprocess; out: what the preprocessor does if it is run
\* ("stable": exit code 0 and no output, "unstable": exit code 0 with output,
\* "fail": another exit code, which raises BuildException)
Preprocess(out) ==
    /\ phase = "run"
    /\ ~failed
    /\ ~dec["pre"].made
    /\ \E q1 \in {callNow(D, SourceFile, QueryOp)} :
       \E q2 \in {callNow(q1.d, IncSet, QueryOp)} :
       \E lk \in {lock(owner, wstore, PreFile, ClangOwner)} :
           /\ lk.ok
           /\ owner' = lk.owner
           /\ \E data \in {lk.store[ClangOwner][PreFile]} :
              \E all \in {gatherAnd(q2.d, IF has(data, "includeHash")
                                          THEN data.includeHash ELSE <<>>)} :
                  LET dependencyHash == <<q1.ret.ver, q2.ret.ver>>
                      args == sorted(cfg.flags \cap PreFlags)
                      early == preChanged(data, dependencyHash, args)
                      \* the tests run only if nothing before them asks to rebuild
                      tst == IF early THEN [d |-> q2.d, ok |-> TRUE] ELSE all
                      must == early \/ ~tst.ok \/ ~isPresent(PreFile)
                      begun == dictSet(dictSet(EmptyDict, "args", args),
                                       "dependencyHash", dependencyHash)
                  IN  /\ dec' = [dec EXCEPT !["pre"] =
                                    Decision(must, out, isPresent(PreFile), data,
                                             dictSet(begun, "stable", TRUE), all.ok)]
                      /\ IF ~must
                         THEN /\ SetD(tst.d)
                              /\ wstore' = lk.store
                              /\ UNCHANGED <<fs, clock, failed>>
                         ELSE IF out = "fail"
                         THEN /\ SetD(tst.d)
                              /\ wstore' = [lk.store EXCEPT ![ClangOwner][PreFile] = begun]
                              /\ failed' = TRUE
                              /\ UNCHANGED <<fs, clock>>
                         ELSE \E q3 \in {callNow(tst.d, Header, QueryOp)} :
                              /\ SetD([q3.d EXCEPT
                                          !.since = touch(@, PreFile, PreContent)])
                              /\ wstore' = [lk.store EXCEPT ![ClangOwner][PreFile] =
                                               dictSet(dictSet(begun,
                                                   "includeHash", <<q3.ret.ver>>),
                                                   "stable", out = "stable")]
                              /\ fs' = written(PreFile, PreContent)
                              /\ clock' = clock + 1
                              /\ UNCHANGED failed
    /\ rets' = <<>>
    /\ UNCHANGED <<phase, run, jcounter, waiters, cleared, nested, wsVars, opVars, cfg, lres,
                   prevClean, changed, edits, kinds>>

\* ClangCppGroup.__compile once the preprocessed file is there
Compile(out) ==
    /\ phase = "run"
    /\ ~failed
    /\ dec["pre"].made
    /\ ~dec["compile"].made
    /\ \E q \in {callNow(D, PreFile, QueryOp)} :
       LET dependencyHash == <<q.ret.ver>>
           args == sorted(cfg.flags \cap PreFlags)
           outputFile == objectPath(cfg)
           lk == lock(owner, wstore, outputFile, ClangOwner)
           data == lk.store[ClangOwner][outputFile]
           must == compileMustBuild(data, cfg, dependencyHash, args,
                                    isPresent(outputFile))
       IN  /\ lk.ok
           /\ owner' = lk.owner
           /\ dec' = [dec EXCEPT !["compile"] =
                         Decision(must, out, isPresent(outputFile), data,
                                  flagWitness(EmptyDict, cfg, args, TRUE, dependencyHash),
                                  TRUE)]
           /\ IF ~must
              THEN /\ SetD(q.d)
                   /\ wstore' = lk.store
                   /\ UNCHANGED <<fs, clock, failed>>
              ELSE IF out = "fail"
              THEN /\ SetD(q.d)
                   /\ wstore' = [lk.store EXCEPT ![ClangOwner][outputFile] =
                                    flagWitness(EmptyDict, cfg, args, FALSE,
                                                dependencyHash)]
                   /\ failed' = TRUE
                   /\ UNCHANGED <<fs, clock>>
              ELSE /\ SetD([q.d EXCEPT !.since = touch(@, outputFile, ObjContent(cfg))])
                   /\ wstore' = [lk.store EXCEPT ![ClangOwner][outputFile] =
                                    flagWitness(EmptyDict, cfg, args, out = "stable",
                                                dependencyHash)]
                   /\ fs' = written(outputFile, ObjContent(cfg))
                   /\ clock' = clock + 1
                   /\ UNCHANGED failed
    /\ rets' = <<>>
    /\ UNCHANGED <<phase, run, jcounter, waiters, cleared, nested, wsVars, opVars, cfg, lres,
                   prevClean, changed, edits, kinds>>

\* ClangCppGroup.link once the object file is there
Link(out) ==
    /\ phase = "run"
    /\ ~failed
    /\ dec["compile"].made
    /\ ~dec["link"].made
    /\ \E q \in {callNow(D, objectPath(cfg), QueryOp)} :
       LET dependencyHash == <<q.ret.ver, Null>>
           args == sorted(cfg.flags \cap LinkFlags)
           lk == lock(owner, wstore, ExeFile, ClangOwner)
           data == lk.store[ClangOwner][ExeFile]
           must == linkMustBuild(data, cfg, dependencyHash, args, isPresent(ExeFile))
       IN  /\ lk.ok
           /\ owner' = lk.owner
           /\ dec' = [dec EXCEPT !["link"] =
                         Decision(must, out, isPresent(ExeFile), data,
                                  flagWitness(EmptyDict, cfg, args, TRUE, dependencyHash),
                                  TRUE)]
           /\ SetD(q.d)
           /\ IF ~must
              THEN /\ wstore' = lk.store
                   /\ UNCHANGED <<fs, clock, failed>>
              ELSE IF out = "fail"
              THEN /\ wstore' = [lk.store EXCEPT ![ClangOwner][ExeFile] =
                                    flagWitness(data, cfg, args, FALSE, dependencyHash)]
                   /\ failed' = TRUE
                   /\ UNCHANGED <<fs, clock>>
              ELSE /\ wstore' = [lk.store EXCEPT ![ClangOwner][ExeFile] =
                                    flagWitness(data, cfg, args, out = "stable",
                                                dependencyHash)]
                   /\ fs' = written(ExeFile, ExeContent(cfg))
                   /\ clock' = clock + 1
                   /\ UNCHANGED failed
    /\ rets' = <<>>
    /\ UNCHANGED <<phase, run, jcounter, waiters, cleared, nested, wsVars, opVars, cfg, lres,
                   prevClean, changed, edits, kinds>>

\* FileManagement.copyFile of a dynamic library into the bin directory;
\* out = "fail": the copy raised. The copy shares no path with the other steps,
\* so it is taken after them instead of at every point among them.
Copy(out) ==
    /\ phase = "run"
    /\ ~failed
    /\ dec["link"].made
    /\ ~dec["copy"].made
    /\ \E q \in {callNow(D, DllSource, QueryOp)} :
       LET sourceHash == q.ret.ver
           lk == lock(owner, wstore, DllTarget, FileOwner)
           data == lk.store[FileOwner][DllTarget]
           must == copyMustCopy(data, sourceHash, isPresent(DllTarget))
       IN  /\ lk.ok
           /\ owner' = lk.owner
           /\ dec' = [dec EXCEPT !["copy"] =
                         Decision(must, out, isPresent(DllTarget), data,
                                  dictSet(EmptyDict, "sourceHash", sourceHash), TRUE)]
           /\ SetD(q.d)
           /\ IF ~must
              THEN /\ wstore' = lk.store
                   /\ UNCHANGED <<fs, clock, failed>>
              ELSE IF out = "fail"
              THEN /\ wstore' = lk.store
                   /\ failed' = TRUE
                   /\ UNCHANGED <<fs, clock>>
              ELSE /\ wstore' = [lk.store EXCEPT ![FileOwner][DllTarget] =
                                    dictSet(data, "sourceHash", sourceHash)]
                   /\ fs' = written(DllTarget, fs[DllSource].c)
                   /\ clock' = clock + 1
                   /\ UNCHANGED failed
    /\ rets' = <<>>
    /\ UNCHANGED <<phase, run, jcounter, waiters, cleared, nested, wsVars, opVars, cfg, lres,
                   prevClean, changed, edits, kinds>>

\* Workspace.run enters FileDeltaChecker.run and FileManagement.run; c: the
\* switches and flags of this invocation
BuildStartRun(c) ==
    /\ phase = "idle"
    /\ run < MaxBuildRuns
    /\ phase' = "run"
    /\ run' = run + 1
    /\ deltaEnter
    /\ owner' = EmptyFn
    /\ cfg' = c
    /\ dec' = [s \in Steps |-> NoDecision]
    /\ failed' = FALSE
    /\ changed' = (changed \/ c # cfg)
    /\ kinds' = IF c # cfg THEN kinds \cup {"flags"} ELSE kinds
    /\ UNCHANGED <<fs, clock, nested, wsVars, opVars, wstore, lres, prevClean, edits>>

\* the finally blocks of FileManagement.run and FileDeltaChecker.run; the run
\* ends normally when every step is through, or by the exception of a step
BuildEndRun(exc) ==
    /\ phase = "run"
    /\ exc = failed
    /\ ~exc => \A s \in Steps : dec[s].made
    /\ phase' = "idle"
    /\ deltaExit(exc)
    /\ wstore' = teardown(wstore, owner)
    /\ prevClean' = (~exc /\ \A s \in Steps : dec[s].out \in {"skip", "stable"})
    /\ changed' = FALSE
    /\ kinds' = {}
    /\ UNCHANGED <<fs, clock, run, nested, wsVars, opVars, cfg, owner, lres, dec, failed, edits>>

\* between two runs somebody edits the source file or the header
BuildWrite(f, c) ==
    /\ phase = "idle"
    /\ edits < MaxEdits
    /\ edits' = edits + 1
    /\ changed' = TRUE
    /\ kinds' = kinds \cup {"write"}
    /\ clock' = clock + 1
    /\ fs' = [fs EXCEPT ![f] = [c |-> c, t |-> clock + 1]]
    /\ since' = touch(since, f, c)
    /\ rets' = <<>>
    /\ UNCHANGED <<phase, run, items, jcounter, counter, idmap, chk, waiters, alloc,
                   rcount, cleared, streak, nested, wsVars, opVars, cfg, owner, wstore, lres, dec,
                   failed, prevClean>>

\* between two runs somebody deletes an output
BuildDelete(p) ==
    /\ phase = "idle"
    /\ edits < MaxEdits
    /\ fs[p].c # Absent
    /\ edits' = edits + 1
    /\ changed' = TRUE
    /\ kinds' = kinds \cup {p}
    /\ clock' = clock + 1
    /\ fs' = deleted(p)
    /\ since' = touch(since, p, Absent)
    /\ rets' = <<>>
    /\ UNCHANGED <<phase, run, items, jcounter, counter, idmap, chk, waiters, alloc,
                   rcount, cleared, streak, nested, wsVars, opVars, cfg, owner, wstore, lres, dec,
                   failed, prevClean>>

\* between two runs a header that nothing includes appears or disappears
BuildToggleUnused ==
    /\ phase = "idle"
    /\ edits < MaxEdits
    /\ edits' = edits + 1
    /\ changed' = TRUE
    /\ kinds' = IF "unused" \in kinds THEN kinds \ {"unused"} ELSE kinds \cup {"unused"}
    /\ clock' = clock + 1
    /\ fs' = [fs EXCEPT ![Unused] = IF fs[Unused].c = Absent
                                     THEN [c |-> 1, t |-> clock + 1]
                                     ELSE [c |-> Absent, t |-> 0],
                        ![IncDir] = [c |-> 1, t |-> clock + 1]]
    /\ since' = [since EXCEPT ![Unused] = NoId, ![IncDir] = NoId, ![IncSet] = NoId]
    /\ rets' = <<>>
    /\ UNCHANGED <<phase, run, items, jcounter, counter, idmap, chk, waiters, alloc,
                   rcount, cleared, streak, nested, wsVars, opVars, cfg, owner, wstore, lres, dec,
                   failed, prevClean>>

\* ---------------------------------------------------------------- workspace
\* The module scheduler (src/mounter/workspace.py) with the modules that wrap
\* their dependents: Persistence, Guardian, AsyncioLoop, Bridge, FileManagement
\* and a project module that stands for the modules of the driver.
MaxDeps == 2
MaxAppends == 1
MaxTasks == 1

ModKeys == {"Persistence", "Guardian", "AsyncioLoop", "Bridge", "FileManagement",
            "Project"}
\* the keys the driver registers an implementation for with use()
UseKeys == {"Persistence"}
\* the keys the driver and the project module name in add(); Guardian and
\* Bridge are added by the modules that depend on them only
DriverKeys == {"Persistence", "AsyncioLoop", "FileManagement", "Project"}
\* the dependency lists the project module can have
DepSeqs == UNION {[1..n -> DriverKeys] : n \in 0..MaxDeps}

\* an entry of the topology: a module instance or an AppendHook
ModuleEntry(key, variant) ==
    [kind |-> "module", key |-> key, variant |-> variant, parent |-> "", id |-> 0]
AppendHook(fnc, mod, id) ==
    [kind |-> "hook", key |-> fnc, variant |-> "", parent |-> mod, id |-> id]
\* Python None where a module is expected
NoModule == [kind |-> "none", key |-> "", variant |-> "", parent |-> "", id |-> 0]

NewWorkspace ==
    [activeModules |-> EmptyFn, inactiveModules |-> EmptyFn, topology |-> <<>>,
     topologyIndex |-> 0, runningModule |-> ""]

manifest(key) == ModuleEntry(key, "default")

addAllowed(w) == w.topologyIndex = 0

isActive_never(w, key) == FALSE
isActive(w, key) == key \in DOMAIN w.activeModules

pick_default(w, key, mod) == mod
pick(w, key, mod) ==
    IF key \in DOMAIN w.inactiveModules THEN w.inactiveModules[key] ELSE mod

appendModule_front(topology, mod) == <<mod>> \o topology
appendModule(topology, mod) == Append(topology, mod)

\* "X in self.ws": the module X has been added
Contains(w, key) == key \in DOMAIN w.activeModules

activationAllowed_always(w, key) == TRUE
activationAllowed(w, key) == key = "Persistence" => ~Contains(w, "AsyncioLoop")

\* the add() calls of a module's activation, in order
depsOf(key, ds) ==
    CASE key = "AsyncioLoop" -> <<"Guardian">>
      [] key = "Bridge" -> <<"AsyncioLoop">>
      [] key = "FileManagement" -> <<"Persistence", "Bridge">>
      [] key = "Project" -> ds
      [] OTHER -> <<>>

\* one add() call as it ended: the workspace before and after it, what it
\* returned and the instances activated during it
AddCall(key, pre, post, ret, raised, act) ==
    [key |-> key, pre |-> pre, post |-> post, ret |-> ret, raised |-> raised,
     act |-> act]

RECURSIVE add(_, _, _)
RECURSIVE addEach(_, _, _)

\* s = [workspace, addedBy, activated, log]; the result is [s, ret, raised]
addEach(s, parent, deps) ==
    IF deps = <<>> THEN [s |-> s, ret |-> NoModule, raised |-> FALSE]
    ELSE LET next(r) == IF r.raised THEN r ELSE addEach(r.s, parent, Tail(deps))
         IN next(add([s EXCEPT !.addedBy = @ \cup {<<parent, Head(deps)>>}],
                     Head(deps), <<>>))

activate(s, mod, ds) ==
    LET s1 == [s EXCEPT !.activated = Append(@, mod)]
    IN IF ~activationAllowed(s1.ws, mod.key)
       THEN [s |-> s1, ret |-> NoModule, raised |-> TRUE]
       ELSE addEach(s1, mod.key, depsOf(mod.key, ds))

add(s, key, ds) ==
    LET w == s.ws
        n == Len(s.activated)
        end(t, ret, raised) ==
            [s |-> [t EXCEPT !.log = Append(@, AddCall(key, w, t.ws, ret, raised,
                                    SubSeq(t.activated, n + 1, Len(t.activated))))],
             ret |-> ret, raised |-> raised]
    IN IF ~addAllowed(w) THEN end(s, NoModule, TRUE)
       ELSE IF isActive(w, key)
       THEN IF w.activeModules[key] = NoModule THEN end(s, NoModule, TRUE)
            ELSE end(s, w.activeModules[key], FALSE)
       ELSE LET mod == pick(w, key, manifest(key))
                s1 == [s EXCEPT !.ws.inactiveModules = Drop(@, {key}),
                                !.ws.activeModules = Put(@, key, NoModule)]
                done(r) ==
                    IF r.raised THEN end(r.s, NoModule, TRUE)
                    ELSE end([r.s EXCEPT
                                 !.ws.topology = appendModule(@, mod),
                                 !.ws.activeModules = Put(@, key, mod)], mod, FALSE)
            IN done(activate(s1, mod, ds))

useAllowed(w, key) ==
    key \notin DOMAIN w.inactiveModules /\ key \notin DOMAIN w.activeModules

use(w, mod) == [w EXCEPT !.inactiveModules = Put(@, mod.key, mod)]

appendHook_front(topology, hook) == <<hook>> \o topology
appendHook(topology, hook) == Append(topology, hook)

append(w, fnc, id) ==
    [w EXCEPT !.topology = appendHook(@, AppendHook(fnc, w.runningModule, id))]

\* the modules of a topology, in order
RECURSIVE modulesOf(_)
modulesOf(topology) ==
    IF topology = <<>> THEN <<>>
    ELSE IF Head(topology).kind = "module"
         THEN <<Head(topology)>> \o modulesOf(Tail(topology))
         ELSE modulesOf(Tail(topology))

\* -- the call stack below the driver
LoopFrame(mc) == [f |-> "loop", mc |-> mc, pos |-> 0, pc |-> "", style |-> ""]
HookFrame(pos) == [f |-> "hook", mc |-> "", pos |-> pos, pc |-> "pre", style |-> ""]

\* Workspace.run() is called: it saves the running module and starts its loop
runCall(stk, w) == Append(stk, LoopFrame(w.runningModule))
\* Module._downstream(): the hook calls back into the scheduler's run()
downstream(stk, w) == runCall(stk, w)

loopContinues_short(index, topology) == index < Len(topology) - 1
loopContinues(index, topology) == index < Len(topology)

advance_stay(index) == index
advance(index) == index + 1

Styles == {"plain", "down", "finally"}
\* how a run hook wraps its dependents: it returns without running them, it
\* runs them and then its tear-down, or it runs its tear-down in a finally
hookStyle_noFinally(key) ==
    CASE key \in {"Guardian", "Persistence"} -> {"down"}
      [] key = "Project" -> Styles
      [] OTHER -> {"finally"}
hookStyle(key) ==
    CASE key = "Guardian" -> {"down"}
      [] key = "Project" -> Styles
      [] OTHER -> {"finally"}

\* an event of the execution phase
Ev(e, pos, by, ph) == [e |-> e, pos |-> pos, by |-> by, ph |-> ph]

NewRuntime ==
    [root |-> FALSE, journal |-> 0, store |-> FALSE, mustComplete |-> 0,
     scheduledOrRunning |-> FALSE, runner |-> "new"]

\* the futures of the loop run to their end
drained(r) == [r EXCEPT !.mustComplete = 0]
taskEvents(r, pos) == IF r.mustComplete > 0 THEN <<Ev("task", pos, 0, "")>> ELSE <<>>

\* the code of a run hook before its downstream call: [rt, raised]
hookBefore(key, r) ==
    CASE key = "Persistence" -> [rt |-> [r EXCEPT !.root = TRUE], raised |-> FALSE]
      [] key = "FileManagement" ->
            IF r.root THEN [rt |-> [r EXCEPT !.store = TRUE], raised |-> FALSE]
            ELSE [rt |-> r, raised |-> TRUE]
      [] key = "AsyncioLoop" -> [rt |-> [r EXCEPT !.runner = "open"], raised |-> FALSE]
      [] OTHER -> [rt |-> r, raised |-> FALSE]

\* the code of a run hook after its downstream call: [rt, evs, raised]
hookAfter(key, r, pos, fail) ==
    CASE key = "Persistence" ->
            IF r.root
            THEN [rt |-> [r EXCEPT !.root = FALSE, !.journal = @ + 1],
                  evs |-> <<Ev("save", pos, 0, "")>>, raised |-> FALSE]
            ELSE [rt |-> r, evs |-> <<>>, raised |-> TRUE]
      [] key = "FileManagement" ->
            [rt |-> [r EXCEPT !.store = FALSE],
             evs |-> <<Ev("mutate", pos, 0, "")>>, raised |-> FALSE]
      [] key = "AsyncioLoop" ->
            [rt |-> [drained(r) EXCEPT !.runner = "closed"],
             evs |-> taskEvents(r, pos), raised |-> FALSE]
      [] key = "Guardian" -> [rt |-> r, evs |-> <<>>, raised |-> fail]
      [] OTHER -> [rt |-> r, evs |-> <<>>, raised |-> FALSE]

\* Workspace.__getitem__ finds the module
hasItem(w, key) == key \in DOMAIN w.activeModules /\ w.activeModules[key] # NoModule

Top == stack[Len(stack)]
Pop == SubSeq(stack, 1, Len(stack) - 1)
TopEntry == workspace.topology[Top.pos]
InHook == stack # <<>> /\ Top.f = "hook" /\ ~raising
\* the frame of the project module's hook is running its own code
InProject ==
    /\ InHook
    /\ TopEntry.kind = "module"
    /\ TopEntry.key = "Project"
Ph == IF Top.pc = "pre" THEN "pre" ELSE "post"
Leave(how) == Ev("leave", Top.pos, 0, how)
Discovery == [ws |-> workspace, addedBy |-> addedBy, activated |-> activated, log |-> <<>>]

wsOther == <<envVars, deltaVars, buildCore, opVars>>
NoAdd == [log |-> <<>>, afterRun |-> FALSE]

DriverAdd(key, ds) ==
    /\ driver \in {"discovery", "returned"}
    /\ key # "Project" => ds = <<>>
    /\ \E r \in {add(Discovery, key, ds)} :
          /\ workspace' = r.s.ws
          /\ addedBy' = r.s.addedBy
          /\ activated' = r.s.activated
          /\ lastAdd' = [log |-> r.s.log, afterRun |-> driver = "returned"]
          /\ driver' = IF r.raised THEN "raised" ELSE driver
    /\ UNCHANGED <<stack, raising, rt, hist, appends, tasks, topoAtRun, wsOther>>

DriverUse(key) ==
    /\ driver = "discovery"
    /\ IF useAllowed(workspace, key)
       THEN workspace' = use(workspace, ModuleEntry(key, "used")) /\ UNCHANGED driver
       ELSE driver' = "raised" /\ UNCHANGED workspace
    /\ lastAdd' = NoAdd
    /\ UNCHANGED <<stack, raising, rt, hist, addedBy, activated, appends, tasks,
                   topoAtRun, wsOther>>

DriverAppend ==
    /\ driver = "discovery"
    /\ appends < MaxAppends
    /\ workspace' = append(workspace, "fn", appends + 1)
    /\ appends' = appends + 1
    /\ hist' = Append(hist, Ev("append", Len(workspace.topology) + 1, 0, driver))
    /\ lastAdd' = NoAdd
    /\ UNCHANGED <<stack, raising, driver, rt, addedBy, activated, tasks,
                   topoAtRun, wsOther>>

DriverRun ==
    /\ driver = "discovery"
    /\ stack' = runCall(stack, workspace)
    /\ driver' = "running"
    /\ topoAtRun' = modulesOf(workspace.topology)
    /\ lastAdd' = NoAdd
    /\ UNCHANGED <<workspace, raising, rt, hist, addedBy, activated, appends, tasks,
                   wsOther>>

\* one turn of the loop of Workspace.run(): the next entry's hook is called, or
\* the loop ends and run() returns
RunLoop ==
    /\ stack # <<>> /\ Top.f = "loop" /\ ~raising
    /\ IF loopContinues(workspace.topologyIndex, workspace.topology)
       THEN \E pos \in {workspace.topologyIndex + 1} : \E module \in {workspace.topology[pos]} :
              /\ workspace' = [workspace EXCEPT !.topologyIndex = advance(@),
                                  !.runningModule = IF module.kind = "hook"
                                                    THEN module.parent ELSE module.key]
              /\ stack' = Append(stack, HookFrame(pos))
              /\ hist' = Append(hist, Ev("enter", pos, 0, ""))
              /\ UNCHANGED driver
       ELSE /\ workspace' = [workspace EXCEPT !.runningModule = Top.mc]
            /\ stack' = Pop
            /\ driver' = IF Len(stack) = 1 THEN "returned" ELSE driver
            /\ UNCHANGED hist
    /\ UNCHANGED <<raising, rt, addedBy, activated, lastAdd, appends, tasks, topoAtRun,
                   wsOther>>

\* the hook of a module up to its downstream call, or to its end when it makes
\* none
HookPre(style) ==
    /\ InHook /\ Top.pc = "pre"
    /\ TopEntry.kind = "module"
    /\ style \in hookStyle(TopEntry.key)
    /\ \E r \in {hookBefore(TopEntry.key, rt)} :
          IF r.raised
          THEN /\ raising' = TRUE
               /\ stack' = Pop
               /\ hist' = Append(hist, Leave("raise"))
               /\ UNCHANGED rt
          ELSE /\ rt' = r.rt
               /\ UNCHANGED raising
               /\ IF style = "plain"
                  THEN stack' = Pop /\ hist' = Append(hist, Leave("return"))
                  ELSE /\ \E stk \in {[stack EXCEPT ![Len(stack)] =
                                          [@ EXCEPT !.pc = "down", !.style = style]]} :
                             \* the project calls context.run() as the modules of
                             \* operation/core.py and hashcache.py do
                             stack' = IF TopEntry.key = "Project"
                                      THEN runCall(stk, workspace)
                                      ELSE downstream(stk, workspace)
                       /\ UNCHANGED hist
    /\ UNCHANGED <<workspace, driver, addedBy, activated, lastAdd, appends, tasks, topoAtRun,
                   wsOther>>

\* the downstream call has returned: the rest of the hook, its tear-down
HookPost(fail) ==
    /\ InHook /\ Top.pc = "down"
    /\ fail => TopEntry.key = "Guardian"
    /\ \E r \in {hookAfter(TopEntry.key, rt, Top.pos, fail)} :
          /\ rt' = r.rt
          /\ raising' = r.raised
          /\ hist' = hist \o <<Ev("post", Top.pos, 0, "return")>> \o r.evs
                          \o <<Leave(IF r.raised THEN "raise" ELSE "return")>>
    /\ stack' = Pop
    /\ UNCHANGED <<workspace, driver, addedBy, activated, lastAdd, appends, tasks, topoAtRun,
                   wsOther>>

\* an exception leaves the innermost frame; a finally block runs on the way
Unwind ==
    /\ raising /\ stack # <<>>
    /\ IF Top.f = "hook" /\ Top.pc = "down" /\ Top.style = "finally"
       THEN \E r \in {hookAfter(TopEntry.key, rt, Top.pos, FALSE)} :
              /\ rt' = r.rt
              /\ hist' = hist \o <<Ev("post", Top.pos, 0, "raise")>> \o r.evs
                              \o <<Leave("raise")>>
       ELSE /\ hist' = IF Top.f = "hook" THEN Append(hist, Leave("raise")) ELSE hist
            /\ UNCHANGED rt
    /\ stack' = Pop
    /\ raising' = (Len(stack) > 1)
    /\ driver' = IF Len(stack) = 1 THEN "raised" ELSE driver
    /\ UNCHANGED <<workspace, addedBy, activated, lastAdd, appends, tasks, topoAtRun, wsOther>>

\* the continuation of an AppendHook runs
ContRun ==
    /\ InHook
    /\ TopEntry.kind = "hook"
    /\ IF TopEntry.key = "drain"
       THEN /\ rt' = [drained(rt) EXCEPT !.scheduledOrRunning = FALSE]
            /\ hist' = hist \o taskEvents(rt, Top.pos) \o <<Leave("return")>>
       ELSE /\ hist' = Append(hist, Leave("return"))
            /\ UNCHANGED rt
    /\ stack' = Pop
    /\ UNCHANGED <<workspace, raising, driver, addedBy, activated, lastAdd, appends, tasks,
                   topoAtRun, wsOther>>

\* the project's hook registers a continuation
ProjectAppend ==
    /\ InProject
    /\ appends < MaxAppends
    /\ workspace' = append(workspace, "fn", appends + 1)
    /\ appends' = appends + 1
    /\ hist' = Append(hist, Ev("append", Len(workspace.topology) + 1, Top.pos, Ph))
    /\ UNCHANGED <<stack, raising, driver, rt, addedBy, activated, lastAdd, tasks,
                   topoAtRun, wsOther>>

\* the project's hook hands a future to AsyncioLoop.completeLater
ProjectCompleteLater ==
    /\ InProject
    /\ tasks < MaxTasks
    /\ tasks' = tasks + 1
    /\ IF ~hasItem(workspace, "AsyncioLoop") \/ rt.runner = "closed"
       THEN /\ raising' = TRUE
            /\ stack' = Pop
            /\ hist' = Append(hist, Leave("raise"))
            /\ UNCHANGED <<workspace, rt>>
       ELSE /\ rt' = [rt EXCEPT !.mustComplete = @ + 1, !.scheduledOrRunning = TRUE]
            /\ IF rt.scheduledOrRunning
               THEN UNCHANGED <<workspace, hist>>
               ELSE /\ workspace' = append(workspace, "drain", 0)
                    /\ hist' = Append(hist,
                                      Ev("append", Len(workspace.topology) + 1, Top.pos, Ph))
            /\ UNCHANGED <<stack, raising>>
    /\ UNCHANGED <<driver, addedBy, activated, lastAdd, appends, topoAtRun, wsOther>>

\* the project's hook calls add()
ProjectAdd(key) ==
    /\ InProject
    /\ \E r \in {add(Discovery, key, <<>>)} :
          /\ workspace' = r.s.ws
          /\ addedBy' = r.s.addedBy
          /\ activated' = r.s.activated
          /\ lastAdd' = [log |-> r.s.log, afterRun |-> TRUE]
          /\ IF r.raised
             THEN raising' = TRUE /\ stack' = Pop /\ hist' = Append(hist, Leave("raise"))
             ELSE UNCHANGED <<raising, stack, hist>>
    /\ UNCHANGED <<driver, rt, appends, tasks, topoAtRun, wsOther>>

\* the project's hook raises: a step failed or the build was interrupted
ProjectRaise ==
    /\ InProject
    /\ raising' = TRUE
    /\ stack' = Pop
    /\ hist' = Append(hist, Leave("raise"))
    /\ UNCHANGED <<workspace, driver, rt, addedBy, activated, lastAdd, appends, tasks,
                   topoAtRun, wsOther>>

WsIdle ==
    /\ workspace = NewWorkspace
    /\ stack = <<>>
    /\ raising = FALSE
    /\ driver = "discovery"
    /\ rt = NewRuntime
    /\ hist = <<>>
    /\ addedBy = {}
    /\ activated = <<>>
    /\ lastAdd = NoAdd
    /\ appends = 0
    /\ tasks = 0
    /\ topoAtRun = <<>>

\* ---------------------------------------------------------------- persistence
\* src/mounter/persistence.py.  Time is counted in units of fifteen days.
\* 60 * 60 * 24 * 30 seconds
ThirtyDays == 2
MaxTime == 4

\* The JSON object of the persistence file, or Persistence._root: the reserved entry
\* of the persistence module holds "created", `mod` is the record of one other module
\* (Missing: no such key, 0: an empty dictionary, 1: some data).
Obj(created, mod) == [exists |-> TRUE, created |-> created, mod |-> mod]
\* no file on disk; None as the value of _root
NoData == [exists |-> FALSE, created |-> Missing, mod |-> Missing]
NoLoad == [done |-> FALSE, file |-> NoData, time |-> 0, root |-> NoData, raised |-> ""]
\* what can be found on disk that Persistence did not write at that time
ExternalFiles ==
    {NoData} \cup {Obj(c, m) : c \in {Missing} \cup (0 .. ptime), m \in {Missing, 1}}

\* Persistence._loadPersistenceFile: the new value of _root, or the exception
loadPersistenceFile(file, currentTime) ==
    LET oldestAllowedTime == currentTime - ThirtyDays
    IN  IF file.exists /\ file.created = Missing
        THEN [root |-> NoData, raised |-> "KeyError"]
        ELSE IF file.exists /\ oldestAllowedTime < file.created
        THEN [root |-> file, raised |-> ""]
        ELSE [root |-> Obj(currentTime, Missing), raised |-> ""]

\* Persistence.run up to the call of _downstream(); an exception of the load leaves
\* run() before its try statement, so nothing is saved
PersLoad ==
    /\ ~proot.exists
    /\ \E r \in {loadPersistenceFile(pfile, ptime)} :
        /\ proot' = r.root
        /\ pres' = [done |-> TRUE, file |-> pfile, time |-> ptime, root |-> r.root,
                    raised |-> r.raised]
    /\ UNCHANGED <<pfile, ptime>>

\* Persistence.lookup(obj) by a downstream module, which may store data in its record
PersLookup(v) ==
    /\ proot.exists
    /\ proot' = [proot EXCEPT !.mod = IF v = 0 /\ @ # Missing THEN @ ELSE v]
    /\ UNCHANGED <<pfile, ptime, pres>>

\* the finally clause of Persistence.run: _savePersistenceFile
PersSave ==
    /\ proot.exists
    /\ pfile' = proot
    /\ proot' = NoData
    /\ UNCHANGED <<ptime, pres>>

PersTick ==
    /\ ptime < MaxTime
    /\ ptime' = ptime + 1
    /\ UNCHANGED <<pfile, proot, pres>>

\* between two runs the file is deleted or replaced
PersExternal(f) ==
    /\ ~proot.exists
    /\ f # pfile
    /\ pfile' = f
    /\ UNCHANGED <<ptime, proot, pres>>

\* ---------------------------------------------------------------- futures
\* src/mounter/operation/completion.py.  Everything here runs on one thread: a call
\* that completes a future runs the continuations of the future inside the call.
MaxConts == 3

\* the CompletableFutures of the caller, two Tasks, the Gather and the Lazy
Kids == {"a", "b"}
TaskIds == {"t", "u"}
\* the futures the bridge calls return, and Bridge.__closeHook
BridgeIds == {"p", "q"}
FutIds == Kids \cup TaskIds \cup BridgeIds \cup {"g", "z", "h"}

\* Future.__result: None, (False, value), (False, tuple) or (True, exception)
NoOutcome == [kind |-> "none", v |-> <<>>]
Value(x) == [kind |-> "ok", v |-> <<x>>]
TupleOf(xs) == [kind |-> "tuple", v |-> xs]
Failure(e) == [kind |-> "exc", v |-> <<e>>]
IsDone(o) == o.kind # "none"
IsFailed(o) == o.kind = "exc"

\* a new CompletionFuture: no result, an empty queue
NewFuture == [res |-> NoOutcome, queue |-> <<>>, open |-> TRUE, sets |-> 0]

\* a continuation: what it is (k), the number it was registered under (n) and what
\* it is bound to (x): the exception it raises, the future or task it belongs to
Cont(k, n, x) == [k |-> k, n |-> n, x |-> x]
FEv(ev, n, f) == [ev |-> ev, n |-> n, f |-> f, x |-> ""]
\* the coroutine of task t raised e; e left the _advance call of task t ("": nothing)
TEv(ev, t, e) == [ev |-> ev, n |-> 0, f |-> t, x |-> e]

\* SystemExit and KeyboardInterrupt are one interrupt, "KI"; InterruptedException(KI)
\* is "IE"
wouldAbsorbRaise(e) == e = "KI"
wrapException_asIs(e) == e
wrapException(e) == IF wouldAbsorbRaise(e) THEN "IE" ELSE e
\* absorbException(exc) after a call that left `up` propagating: an exception on
\* its way wins, otherwise the interrupt is raised
absorbException(up, e) == IF up # "" THEN up ELSE IF wouldAbsorbRaise(e) THEN e ELSE ""

\* raise ExceptionGroup("", exceptions = ...): BaseExceptionGroup takes its two
\* arguments by position only, so the statement raises TypeError
GroupOf(excs) == "TypeError"
\* the end of Completion._complete: absorbException on each, then the group
raiseCollected(excs) ==
    IF excs = <<>> THEN ""
    ELSE IF \E i \in DOMAIN excs : wouldAbsorbRaise(excs[i])
         THEN excs[CHOOSE i \in DOMAIN excs :
                     /\ wouldAbsorbRaise(excs[i])
                     /\ \A j \in 1 .. (i - 1) : ~wouldAbsorbRaise(excs[j])]
         ELSE GroupOf(excs)

\* Gather: __policy, __completions, __pendingCallsToAdvance; history: the futures
\* it was called with (args), their results when the gather was made (born) and when
\* it completed (seen)
NoGather == [made |-> FALSE, policy |-> "", args |-> <<>>, kids |-> <<>>, pending |-> 0,
             born |-> <<>>, seen |-> <<>>]
\* Task: the coroutine awaits the futures of `awaits` one after the other and then
\* returns (end = "ret") or raises the exception `end`; pc is where it stands
NoTask == [made |-> FALSE, awaits |-> <<>>, pc |-> 1, end |-> ""]
\* Lazy: whether __task is set and what the coroutine of its thunk will do; history:
\* how often the thunk was invoked, and whether start(), then() or await was used
NoLazy == [made |-> FALSE, task |-> FALSE, awaits |-> <<>>, end |-> "", calls |-> 0,
           touched |-> FALSE]

\* the heap the calls below work on, and the exception on its way out (`up`)
Heap == [fut |-> fut, gat |-> gat, tk |-> tk, lz |-> lz, br |-> br, log |-> flog, up |-> ""]

First(s, P(_)) == CHOOSE i \in DOMAIN s : P(s[i]) /\ \A j \in 1 .. (i - 1) : ~P(s[j])
Truthy(o) == o.v = <<"True">>
NoFin == [k |-> "none", o |-> NoOutcome]

tuplePolicy_whenAllDone(F, kids) ==
    LET failedKid(f) == IsFailed(F[f].res)
    IN  IF \E i \in DOMAIN kids : ~IsDone(F[kids[i]].res) THEN NoFin
        ELSE IF \E i \in DOMAIN kids : failedKid(kids[i])
        THEN [k |-> "fut", o |-> F[kids[First(kids, failedKid)]].res]
        ELSE [k |-> "instant", o |-> TupleOf([i \in DOMAIN kids |-> F[kids[i]].res.v[1]])]
tuplePolicy(F, kids) ==
    LET failedKid(f) == IsFailed(F[f].res)
    IN  IF \E i \in DOMAIN kids : failedKid(kids[i])
        THEN [k |-> "fut", o |-> F[kids[First(kids, failedKid)]].res]
        ELSE IF \A i \in DOMAIN kids : IsDone(F[kids[i]].res)
        THEN [k |-> "instant", o |-> TupleOf([i \in DOMAIN kids |-> F[kids[i]].res.v[1]])]
        ELSE NoFin

cancelPolicy_coreFirst(F, kids) ==
    LET core == F[kids[1]].res
        cancel == F[kids[2]].res
    IN  IF IsDone(core) THEN [k |-> "fut", o |-> core]
        ELSE IF IsDone(cancel) THEN [k |-> "fut", o |-> cancel]
        ELSE NoFin
cancelPolicy(F, kids) ==
    LET core == F[kids[1]].res
        cancel == F[kids[2]].res
    IN  IF IsFailed(cancel) THEN [k |-> "fut", o |-> cancel]
        ELSE IF IsDone(core) THEN [k |-> "fut", o |-> core]
        ELSE NoFin

\* orPolicy (decides = TRUE) and andPolicy (decides = FALSE).  The first filter calls
\* f.result() on every done child in argument order until one decides: on a failed
\* child that call raises the child's exception out of the policy.
boolPolicy(F, kids, decides) ==
    LET stops(f) == IsDone(F[f].res) /\ (IsFailed(F[f].res) \/ Truthy(F[f].res) = decides)
        failedKid(f) == IsFailed(F[f].res)
    IN  IF \E i \in DOMAIN kids : stops(kids[i])
        THEN LET o == F[kids[First(kids, stops)]].res
             IN  [k |-> IF IsFailed(o) THEN "raise" ELSE "fut", o |-> o]
        ELSE IF \E i \in DOMAIN kids : failedKid(kids[i])
        THEN [k |-> "fut", o |-> F[kids[First(kids, failedKid)]].res]
        ELSE IF \A i \in DOMAIN kids : IsDone(F[kids[i]].res)
        THEN [k |-> "instant", o |-> Value(IF decides THEN "False" ELSE "True")]
        ELSE NoFin

policyOf(name, F, kids) ==
    CASE name = "tuple" -> tuplePolicy(F, kids)
      [] name = "cancel" -> cancelPolicy(F, kids)
      [] name = "or" -> boolPolicy(F, kids, TRUE)
      [] name = "and" -> boolPolicy(F, kids, FALSE)

RECURSIVE complete(_, _, _), runQueue(_, _, _, _), invoke(_, _, _), thenOn(_, _, _),
          gatherAdvance(_), taskAdvance(_, _), taskFail(_, _, _), lazyStart(_),
          lazyThen(_, _), interruptEach(_, _)

\* Bridge.__onTaskDone with __pruneTasks; at zero __stopLoop is given to call_soon
onTaskDone(st) ==
    LET active == st.br.active - 1
        pending == SelectSeq(st.br.tasks, LAMBDA t : ~IsDone(st.fut[t].res))
    IN  [st EXCEPT !.br.active = active,
                   !.br.stops = IF active = 0 THEN @ + 1 ELSE @,
                   !.br.tasks = IF active * 2 < Len(@) THEN pending ELSE @]

\* Completion.then(proc)
thenOn_queued(st, f, c) == [st EXCEPT !.fut[f].queue = Append(@, c)]
thenOn(st, f, c) ==
    IF st.fut[f].open THEN [st EXCEPT !.fut[f].queue = Append(@, c)]
    ELSE invoke(st, c, f)

\* the call a(self) of a continuation of future f
invoke(st, c, f) ==
    CASE c.k = "log" -> [st EXCEPT !.log = Append(@, FEv("call", c.n, f))]
      [] c.k = "raise" -> [st EXCEPT !.log = Append(@, FEv("call", c.n, f)), !.up = c.x]
      \* a continuation that registers another one on the future it is called for
      [] c.k = "then" ->
            thenOn([st EXCEPT !.log = Append(@, FEv("call", c.n, f))], f,
                   Cont("log", 0 - c.n, ""))
      [] c.k = "advance" -> gatherAdvance(st)
      [] c.k = "step" -> taskAdvance(st, c.x)
      \* Bridge.__init__: self.__closeHook.thenCall(self.__interruptAllTasks)
      [] c.k = "interrupt" -> interruptEach(st, st.br.tasks)
      \* Bridge.__newTask: bridge.then(self.__onTaskDone)
      [] c.k = "done" -> onTaskDone(st)
      \* Bridge.bridgeTask: task.then(bridge._completeFromFuture)
      [] c.k = "bcopy" -> IF IsDone(st.fut[c.x].res) THEN st
                          ELSE complete(st, c.x, st.fut[f].res)
      \* Gather.__advance: Task(fin).then(self._copyFrom)
      [] c.k = "gcopy" -> complete(st, "g", st.fut[f].res)
      \* Lazy.start: self.__task.then(self._copyFrom), Future._copyFrom
      [] c.k = "copy" -> [st EXCEPT !.fut["z"].res = st.fut[f].res, !.fut["z"].sets = @ + 1]

\* Completion._complete from the second statement on: the loop over the queue
runQueue_reversed(st, f, q, excs) ==
    IF q = <<>> THEN [st EXCEPT !.up = raiseCollected(excs)]
    ELSE LET after(s) == runQueue([s EXCEPT !.up = ""], f, SubSeq(q, 1, Len(q) - 1),
                                  IF s.up = "" THEN excs ELSE Append(excs, s.up))
         IN  after(invoke(st, q[Len(q)], f))
runQueue(st, f, q, excs) ==
    IF q = <<>> THEN [st EXCEPT !.up = raiseCollected(excs)]
    ELSE LET after(s) == runQueue([s EXCEPT !.up = ""], f, Tail(q),
                                  IF s.up = "" THEN excs ELSE Append(excs, s.up))
         IN  after(invoke(st, Head(q), f))

\* CompletionFuture._setResult, _setException, _copyFrom: the result is stored, then
\* Completion._complete takes the queue; on a second completion the queue is None
\* and the loop over it raises TypeError
complete(st, f, o) ==
    LET stored == [st EXCEPT !.fut[f].res = o, !.fut[f].sets = @ + 1]
    IN  IF ~st.fut[f].open THEN [stored EXCEPT !.up = "TypeError"]
        ELSE runQueue([stored EXCEPT !.fut[f].open = FALSE, !.fut[f].queue = <<>>],
                      f, st.fut[f].queue, <<>>)

\* Bridge.__interruptAllTasks: the loop over the list __tasks was bound to when the
\* loop began; an exception that leaves _completeFromFuture leaves the loop
interruptEach(st, ts) ==
    IF ts = <<>> \/ st.up # "" THEN st
    ELSE interruptEach(IF IsDone(st.fut[Head(ts)].res) THEN st
                       ELSE complete(st, Head(ts), st.fut["h"].res),
                       Tail(ts))

\* Bridge.__checkShutdown
checkShutdown(st) ==
    IF st.br.shutdown /\ ~IsDone(st.fut["h"].res)
    THEN complete(st, "h", Failure("BSE"))
    ELSE st

\* Gather.__advance
gatherAdvance(st) ==
    IF st.gat.pending = 0 THEN st
    ELSE LET pending == st.gat.pending - 1
             fin == policyOf(st.gat.policy, st.fut, st.gat.kids)
             closed == [st EXCEPT !.gat.pending = 0,
                                  !.gat.seen = [i \in DOMAIN @ |-> st.fut[st.gat.args[i]].res]]
             absorbed(s, e) == [s EXCEPT !.up = absorbException(s.up, e)]
         IN  CASE fin.k = "raise" ->
                    absorbed(complete(closed, "g", Failure(wrapException(fin.o.v[1]))),
                             fin.o.v[1])
               [] fin.k = "none" ->
                    IF pending = 0
                    THEN complete(closed, "g", Failure("RanOut"))
                    ELSE [st EXCEPT !.gat.pending = pending]
               [] OTHER -> complete(closed, "g", fin.o)

\* Gather.__new__ over CompletionFutures, which Task(c) returns as they are: with
\* failFast nothing behind the first failed argument is taken
completionsOf(F, args, failFast) ==
    LET failedKid(f) == IsFailed(F[f].res)
    IN  IF failFast /\ \E i \in DOMAIN args : failedKid(args[i])
        THEN SubSeq(args, 1, First(args, failedKid))
        ELSE args
RECURSIVE thenEach(_, _, _)
thenEach(st, ks, c) ==
    IF ks = <<>> THEN st
    ELSE thenEach(IF IsDone(st.fut[Head(ks)].res) THEN st ELSE thenOn(st, Head(ks), c),
                  Tail(ks), c)
newGather(st, policy, args, failFast) ==
    LET kids == completionsOf(st.fut, args, failFast)
        waiting == {i \in DOMAIN kids : ~IsDone(st.fut[kids[i]].res)}
        made == [st EXCEPT !.gat = [made |-> TRUE, policy |-> policy, args |-> args,
                                    kids |-> kids, pending |-> 1 + Cardinality(waiting),
                                    born |-> [i \in DOMAIN args |-> st.fut[args[i]].res],
                                    seen |-> [i \in DOMAIN args |-> NoOutcome]]]
    IN  gatherAdvance(thenEach(made, kids, Cont("advance", 0, "g")))

\* Task._advance, the handler of an exception e raised by the coroutine
taskFail_raw(st, t, e) ==
    LET left(s) ==
            LET out == IF s.up = "" THEN "" ELSE GroupOf(<<e, s.up>>)
            IN  [s EXCEPT !.up = out, !.log = Append(@, TEv("left", t, out))]
    IN  left(complete([st EXCEPT !.log = Append(@, TEv("raised", t, e))], t, Failure(e)))
taskFail(st, t, e) ==
    LET left(s) ==
            LET out == IF s.up = "" THEN absorbException("", e)
                       ELSE IF wouldAbsorbRaise(e) THEN e
                       ELSE IF wouldAbsorbRaise(s.up) THEN s.up
                       ELSE GroupOf(<<e, s.up>>)
            IN  [s EXCEPT !.up = out, !.log = Append(@, TEv("left", t, out))]
    IN  left(complete([st EXCEPT !.log = Append(@, TEv("raised", t, e))], t,
                      Failure(wrapException(e))))

\* Task._advance: the coroutine is resumed and runs up to its next suspension
taskAdvance(st, t) ==
    LET c == st.tk[t]
        ended == [st EXCEPT !.tk[t].pc = Len(c.awaits) + 2]
    IN  IF c.pc <= Len(c.awaits)
        THEN LET x == c.awaits[c.pc]
                 o == st.fut[x].res
             IN  IF ~IsDone(o)
                 THEN IF x = "z" THEN lazyThen(st, Cont("step", 0, t))
                      ELSE thenOn(st, x, Cont("step", 0, t))
                 ELSE IF IsFailed(o) THEN taskFail(ended, t, o.v[1])
                 ELSE taskAdvance([st EXCEPT !.tk[t].pc = @ + 1], t)
        ELSE IF c.end = "ret" THEN complete(ended, t, Value("1"))
        ELSE taskFail(ended, t, c.end)

\* Lazy.start: the first call invokes the thunk and makes the task "t" of its
\* coroutine; an exception of Task() is an interrupt, which leaves the task failed
\* with the wrapper as Instant(exception = wrapException(ex)) would, and is raised
\* after _copyFrom was registered
lazyStart_again(st) ==
    LET started(s) == [thenOn([s EXCEPT !.up = ""], "t", Cont("copy", 0, "z"))
                            EXCEPT !.up = absorbException("", s.up)]
    IN  started(taskAdvance([st EXCEPT !.lz.calls = @ + 1, !.lz.task = TRUE,
                                       !.tk["t"] = [made |-> TRUE, awaits |-> st.lz.awaits,
                                                    pc |-> 1, end |-> st.lz.end]], "t"))
lazyStart(st) ==
    IF st.lz.task THEN st
    ELSE LET started(s) == [thenOn([s EXCEPT !.up = ""], "t", Cont("copy", 0, "z"))
                                EXCEPT !.up = absorbException("", s.up)]
         IN  started(taskAdvance([st EXCEPT !.lz.calls = @ + 1, !.lz.task = TRUE,
                                            !.tk["t"] = [made |-> TRUE,
                                                         awaits |-> st.lz.awaits,
                                                         pc |-> 1, end |-> st.lz.end]],
                                 "t"))

\* Lazy.then(proc): self.start().thenCall(proc, self)
lazyThen(st, c) ==
    LET registered(s) == IF s.up # "" THEN s ELSE thenOn(s, "t", c)
    IN  registered(lazyStart(st))

\* Task.__new__ with a coroutine: the coroutine runs inside the constructor up to its
\* first suspension
newTask(st, t, awaits, end) ==
    taskAdvance([st EXCEPT !.tk[t] = [made |-> TRUE, awaits |-> awaits, pc |-> 1,
                                      end |-> end]], t)

\* ---------------------------------------------------------------- once, operation
\* src/mounter/operation/util.py: one object with a method f decorated with @once and
\* an async method g decorated with @operation, called with the arguments 1 and 2
MaxCalls == 3
OnceArgs == {1, 2}
\* the task of g(1) and the task of g(2)
TaskOf(x) == IF x = 1 THEN "t" ELSE "u"
OCall(fn, x, started, got, up) ==
    [fn |-> fn, x |-> x, started |-> started, got |-> got, up |-> up]

onceVars == <<memo, starts, ocalls, bt>>

SetHeap(st) ==
    /\ br' = st.br
    /\ fut' = st.fut
    /\ gat' = st.gat
    /\ tk' = st.tk
    /\ lz' = st.lz
    /\ flog' = st.log
    /\ fup' = st.up

\* what the caller completes future f with
KidOutcomes(f) == {Value("True"), Value("False"), Failure("E" \o f)}
\* the continuations the caller registers
ContKinds == {<<"log", "">>, <<"raise", "Ec">>, <<"raise", "KI">>, <<"then", "">>}

\* f.then(proc) by the caller
FThen(f, k, x) ==
    /\ UNCHANGED onceVars
    /\ Len(fregs) < MaxConts
    /\ fregs' = Append(fregs, [n |-> Len(fregs) + 1, f |-> f, early |-> fut[f].open,
                               at |-> Len(flog), k |-> k])
    /\ SetHeap(thenOn(Heap, f, Cont(k, Len(fregs) + 1, x)))

\* f.setResult(value) or f.setException(exception) by the caller, on a future that
\* is not done
FSet(f, o) ==
    /\ UNCHANGED onceVars
    /\ ~IsDone(fut[f].res)
    /\ SetHeap(complete(Heap, f, o))
    /\ UNCHANGED fregs

\* f.setResult(value), f.setException(exception) or f.copyFrom(g) by the caller on a
\* future that is done
MaxSets == 3
FSetAgain(f, o) ==
    /\ UNCHANGED onceVars
    /\ IsDone(fut[f].res)
    /\ fut[f].sets < MaxSets
    /\ SetHeap(complete(Heap, f, o))
    /\ UNCHANGED fregs

\* gather(a, b), Gather(core, cancel, policy = cancelPolicy), gatherOr(a, b) or
\* gatherAnd(a, b) by the caller
NewGather(policy, args) ==
    /\ UNCHANGED onceVars
    /\ ~gat.made
    /\ SetHeap(newGather(Heap, policy, args, policy = "tuple"))
    /\ UNCHANGED fregs

\* Task(coroutine) by the caller
NewTask(t, awaits, end) ==
    /\ UNCHANGED onceVars
    /\ ~tk[t].made
    /\ \A i \in DOMAIN awaits : awaits[i] \in TaskIds => tk[awaits[i]].made
    /\ SetHeap(newTask(Heap, t, awaits, end))
    /\ UNCHANGED fregs

\* Lazy(fun) by the caller
NewLazy(awaits, end) ==
    /\ ~lz.made
    /\ lz' = [NoLazy EXCEPT !.made = TRUE, !.awaits = awaits, !.end = end]
    /\ UNCHANGED <<fut, gat, tk, flog, fup, fregs, br>>
    /\ UNCHANGED onceVars

Touched == [Heap EXCEPT !.lz.touched = TRUE]

\* lazy.start() by the caller
LazyStart ==
    /\ UNCHANGED onceVars
    /\ lz.made
    /\ SetHeap(lazyStart(Touched))
    /\ UNCHANGED fregs

\* lazy.then(proc) by the caller; when start() raises, nothing is registered
LazyThen(k, x) ==
    /\ UNCHANGED onceVars
    /\ lz.made
    /\ Len(fregs) < MaxConts
    /\ SetHeap(lazyThen(Touched, Cont(k, Len(fregs) + 1, x)))
    /\ fregs' = IF lazyStart(Touched).up # "" THEN fregs
                ELSE Append(fregs, [n |-> Len(fregs) + 1, f |-> "t",
                                    early |-> ~IsDone(fut["z"].res), at |-> Len(flog),
                                    k |-> k])

\* Task(coroutine) by the caller, where the coroutine awaits the lazy; when Task()
\* raises there is no task
LazyAwait ==
    /\ UNCHANGED onceVars
    /\ lz.made
    /\ ~tk["u"].made
    /\ \E s \in {newTask(Touched, "u", <<"z">>, "ret")} :
        SetHeap(IF s.up = "" THEN s ELSE [s EXCEPT !.tk["u"] = NoTask])
    /\ UNCHANGED fregs

\* ---------------------------------------------------------------- bridge
\* src/mounter/operation/bridge.py
\* Bridge.__init__; `check` is the __checkShutdown that shutdown() has scheduled,
\* `keep` is __bridgeFuture ("None" or "pending"), `stops` counts the __stopLoop calls
\* the loop has been given and has not run, `stopErr` records that one of them raised
NewBridge == [shutdown |-> FALSE, tasks |-> <<>>, active |-> 0, phase |-> "run",
              check |-> FALSE, keep |-> "None", stops |-> 0, stopErr |-> FALSE]
CloseHook == [NewFuture EXCEPT !.queue = <<Cont("interrupt", 0, "")>>]
\* a bridge call: its kind, the future it returned, whether it was made after the
\* shutdown, the outcome of its work and whether that came before the shutdown
NoBridgeTask == [made |-> FALSE, kind |-> "", ret |-> "", late |-> FALSE,
                 work |-> NoOutcome, workFirst |-> FALSE]
BridgeKinds == {"task", "async", "concurrent", "timeout"}
\* the completion task that bridgeTask(task) is called with
WorkOf(b) == IF b = "p" THEN "a" ELSE "b"
\* what the work of a bridge call can end with
WorkOutcomes(kind) ==
    IF kind = "timeout" THEN {Value("None")}
    ELSE IF kind = "" THEN {}
    ELSE {Value("True"), Failure("Ew")}

\* Bridge.__newTask
newBridgeTask(st, b, daemonTask) ==
    IF daemonTask THEN [st EXCEPT !.br.tasks = Append(@, b)]
    ELSE thenOn([st EXCEPT !.br.tasks = Append(@, b), !.br.active = @ + 1,
                           !.br.keep = "pending"], b,
                Cont("done", 0, ""))

\* a scheduled Bridge.__stopLoop runs: with no active task it resolves the keep-alive
\* future and clears the field; set_result on None raises AttributeError
stopLoop_always(b) ==
    IF b.keep = "pending" THEN [b EXCEPT !.keep = "None"]
    ELSE [b EXCEPT !.stopErr = TRUE]
stopLoop(b) ==
    IF b.active # 0 THEN b
    ELSE IF b.keep = "pending" THEN [b EXCEPT !.keep = "None"]
    ELSE [b EXCEPT !.stopErr = TRUE]

LoopStop ==
    /\ br.stops > 0
    /\ br' = stopLoop([br EXCEPT !.stops = @ - 1])
    /\ UNCHANGED <<fut, gat, tk, lz, flog, fup, fregs, memo, starts, ocalls, bt>>

\* Bridge.bridgeTask, bridgeAsync, bridgeConcurrent and timeout, after __checkShutdown
\* has returned: a new future with the outcome of __closeHook (minimal()), the task
\* itself if it is done, or a new BridgeTask
bridgeCall(st, b, kind) ==
    IF st.br.shutdown
    THEN [st EXCEPT !.fut[b] = [NewFuture EXCEPT !.res = st.fut["h"].res, !.open = FALSE,
                                                 !.sets = 1]]
    ELSE IF kind = "task"
    THEN IF IsDone(st.fut[WorkOf(b)].res) THEN st
         ELSE thenOn(newBridgeTask(st, b, FALSE), WorkOf(b), Cont("bcopy", 0, b))
    ELSE newBridgeTask(st, b, kind = "timeout")

BridgeCall(b, kind) ==
    /\ ~bt[b].made
    /\ \E s \in {checkShutdown(Heap)} :
        IF s.up # ""
        THEN SetHeap(s) /\ UNCHANGED bt
        ELSE /\ SetHeap(bridgeCall(s, b, kind))
             /\ bt' = [bt EXCEPT ![b] =
                    [made |-> TRUE, kind |-> kind, late |-> s.br.shutdown,
                     ret |-> IF ~s.br.shutdown /\ kind = "task" /\ IsDone(fut[WorkOf(b)].res)
                             THEN WorkOf(b) ELSE b,
                     work |-> IF ~s.br.shutdown /\ kind = "task" THEN fut[WorkOf(b)].res
                              ELSE NoOutcome,
                     workFirst |-> ~s.br.shutdown /\ kind = "task"
                                    /\ IsDone(fut[WorkOf(b)].res)]]
    /\ UNCHANGED <<fregs, memo, starts, ocalls>>

\* Instant(result, exception): a future completed at once, with the exception if one
\* is given by keyword, else with the result
Instant(result, exception) ==
    IF exception # "" THEN Failure(exception) ELSE Value(result)

\* Parallel.callInBackground(target): after the shutdown the future
\* Instant(Exception("Bridge is shut down")), else the target is submitted to the
\* thread pool and its future goes to bridgeConcurrent
CallInBackground(b) ==
    /\ ~bt[b].made
    /\ IF br.shutdown
       THEN /\ SetHeap([Heap EXCEPT !.fut[b] =
                    [NewFuture EXCEPT !.res = Instant("Exception", ""), !.open = FALSE,
                                      !.sets = 1]])
            /\ bt' = [bt EXCEPT ![b] = [NoBridgeTask EXCEPT !.made = TRUE, !.ret = b,
                                            !.kind = "background", !.late = TRUE]]
       ELSE /\ SetHeap(bridgeCall(Heap, b, "concurrent"))
            /\ bt' = [bt EXCEPT ![b] = [NoBridgeTask EXCEPT !.made = TRUE, !.ret = b,
                                            !.kind = "background"]]
    /\ UNCHANGED <<fregs, memo, starts, ocalls>>

\* the work of a bridge call ends: the task given to bridgeTask completes, or
\* _completeFromInternalFuture resp. _completeWithNone is called for the BridgeTask
BridgeWork(b, o) ==
    /\ bt[b].made /\ ~bt[b].late
    /\ ~IsDone(bt[b].work)
    /\ SetHeap(IF bt[b].kind = "task" THEN complete(Heap, WorkOf(b), o)
               ELSE IF IsDone(fut[b].res) THEN Heap
               ELSE complete(Heap, b, o))
    /\ bt' = [bt EXCEPT ![b].work = o, ![b].workFirst = ~IsDone(fut["h"].res)]
    /\ UNCHANGED <<fregs, memo, starts, ocalls>>

\* a continuation on a BridgeTask by the caller
BridgeThen(b, k, x) ==
    /\ bt[b].made /\ bt[b].ret = b
    /\ FThen(b, k, x)

\* Bridge.shutdown, from the SIGINT handler: the check is scheduled on the loop
BridgeShutdown ==
    /\ br.phase = "run" /\ ~br.shutdown
    /\ br' = [br EXCEPT !.shutdown = TRUE, !.check = TRUE]
    /\ UNCHANGED <<fut, gat, tk, lz, flog, fup, fregs, memo, starts, ocalls, bt>>

\* the scheduled __checkShutdown runs
BridgeCheck ==
    /\ br.check
    /\ SetHeap(checkShutdown([Heap EXCEPT !.br.check = FALSE]))
    /\ UNCHANGED <<fregs, memo, starts, ocalls, bt>>

\* Bridge.run from the end of _downstream() on: the finally clause
BridgeReturn ==
    /\ br.phase = "run"
    /\ SetHeap(checkShutdown([Heap EXCEPT !.br.shutdown = TRUE, !.br.phase = "returned"]))
    /\ UNCHANGED <<fregs, memo, starts, ocalls, bt>>

\* obj.f(x) where f is decorated with @once: the wrapper of once.  The body returns
\* a value or raises; the cache entry is written when the body has returned.
OnceCall(x, body) ==
    /\ Len(ocalls) < MaxCalls
    /\ IF memo["f"][x] # ""
       THEN /\ ocalls' = Append(ocalls, OCall("f", x, FALSE, memo["f"][x], ""))
            /\ UNCHANGED <<memo, starts>>
       ELSE /\ starts' = [starts EXCEPT !["f"][x] = @ + 1]
            /\ memo' = [memo EXCEPT !["f"][x] = IF body = "ret" THEN "v" ELSE @]
            /\ ocalls' = Append(ocalls, IF body = "ret" THEN OCall("f", x, TRUE, "v", "")
                                        ELSE OCall("f", x, TRUE, "", body))
    /\ UNCHANGED <<fut, gat, tk, lz, flog, fup, fregs, br, bt>>

\* once(task(fun)) inside operation: the cached task, or Task(coroutine) of a new
\* start of the body, cached when Task() has returned
onceTask(st, x, awaits, end) ==
    IF memo["g"][x] # "" THEN st
    ELSE newTask([st EXCEPT !.fut[TaskOf(x)] = NewFuture], TaskOf(x), awaits, end)

\* obj.g(x, failFast = ...) where g is decorated with @operation
OpCall(x, awaits, end, failFast) ==
    /\ Len(ocalls) < MaxCalls
    /\ \E s \in {onceTask(Heap, x, awaits, end)} :
        LET started == memo["g"][x] = ""
            k == s.fut[TaskOf(x)].res
        IN  /\ starts' = [starts EXCEPT !["g"][x] = IF started THEN @ + 1 ELSE @]
            /\ memo' = [memo EXCEPT !["g"][x] = IF s.up = "" THEN TaskOf(x) ELSE @]
            /\ ocalls' = Append(ocalls,
                    IF s.up # "" THEN OCall("g", x, started, "", s.up)
                    ELSE IF failFast /\ IsFailed(k) THEN OCall("g", x, started, "", k.v[1])
                    ELSE OCall("g", x, started, TaskOf(x), ""))
            /\ SetHeap([s EXCEPT !.up = ocalls'[Len(ocalls')].up])
    /\ UNCHANGED <<fregs, bt>>

FutIdle ==
    /\ fut = [f \in FutIds |-> IF f = "h" THEN CloseHook ELSE NewFuture]
    /\ br = NewBridge
    /\ bt = [b \in BridgeIds |-> NoBridgeTask]
    /\ gat = NoGather
    /\ tk = [t \in TaskIds |-> NoTask]
    /\ lz = NoLazy
    /\ flog = <<>>
    /\ fup = ""
    /\ fregs = <<>>
    /\ memo = [fn \in {"f", "g"} |-> [x \in OnceArgs |-> ""]]
    /\ starts = [fn \in {"f", "g"} |-> [x \in OnceArgs |-> 0]]
    /\ ocalls = <<>>

\* ---------------------------------------------------------------- red light
\* src/mounter/operation/bridge.py, class RedLight and Bridge.delay
MaxHandles == 3
Waiters == {"w1", "w2"}
\* a callback given to the loop: "none" is BridgeTask._completeWithNone of the delay
\* with number n, "x" is any other callback
Handle(k, n) == [k |-> k, n |-> n]
\* __redLight: state "None" before the first await, then "pending" or "done";
\* gen numbers the delays, next the callbacks of other code
NoRedLight == [state |-> "None", gen |-> 0, next |-> 0, waiters |-> <<>>]
\* an await: the callbacks that were scheduled and had not run when it began, how it
\* was resumed ("inline", "later", "released" by the shutdown, "error"), and whether
\* one of those callbacks had still not run then
NoAwait == [made |-> FALSE, owed |-> {}, resumed |-> "", early |-> FALSE, shut |-> FALSE]

\* the waiters of the red light are resumed: Completion._complete of __redLight
resumeAll(how, left) ==
    [w \in Waiters |->
        IF rw[w].made /\ rw[w].resumed = ""
        THEN [rw[w] EXCEPT !.resumed = how,
                           !.early = \E i \in DOMAIN left : left[i] \in rw[w].owed]
        ELSE rw[w]]

\* RedLight.__refreshRedLight: Completion.fromDelayer(bridge.delay) makes a new
\* completion and hands its completing to Bridge.delay, which makes a bridge task
\* and gives its _completeWithNone to the loop with call_soon
refreshRedLight(r) ==
    IF r.state \in {"None", "done"} /\ ~br.shutdown
    THEN [r EXCEPT !.state = "pending", !.gen = @ + 1]
    ELSE r

\* `await ws[RedLight]` by task w: RedLight.then, thenCall
RedAwait(w) ==
    /\ ~rw[w].made
    /\ rl.gen < MaxHandles
    /\ \E r \in {refreshRedLight(rl)} :
        /\ ready' = IF r.gen # rl.gen THEN Append(ready, Handle("none", r.gen)) ELSE ready
        /\ rl' = IF r.state = "pending" THEN [r EXCEPT !.waiters = Append(@, w)] ELSE r
        /\ rw' = [rw EXCEPT ![w] =
                    [made |-> TRUE, owed |-> {ready[i] : i \in DOMAIN ready},
                     shut |-> br.shutdown, early |-> FALSE,
                     resumed |-> CASE r.state = "None" -> "error"
                                   [] r.state = "done" -> "inline"
                                   [] OTHER -> ""]]
    /\ UNCHANGED futVars

\* the task has been resumed and runs on; it may await the red light again
RedForget(w) ==
    /\ rw[w].made /\ rw[w].resumed # ""
    /\ rw' = [rw EXCEPT ![w] = NoAwait]
    /\ UNCHANGED <<rl, ready, futVars>>

\* loop.call_soon(x) by other code
LoopCallSoon ==
    /\ rl.next < MaxHandles
    /\ ready' = Append(ready, Handle("x", rl.next + 1))
    /\ rl' = [rl EXCEPT !.next = @ + 1]
    /\ UNCHANGED <<rw, futVars>>

\* the loop runs its first callback; _completeWithNone does nothing when its task
\* is done
LoopRunOne ==
    /\ ready # <<>>
    /\ ready' = Tail(ready)
    /\ IF Head(ready) = Handle("none", rl.gen) /\ rl.state = "pending"
       THEN /\ rl' = [rl EXCEPT !.state = "done", !.waiters = <<>>]
            /\ rw' = resumeAll("later", Tail(ready))
       ELSE UNCHANGED <<rl, rw>>
    /\ UNCHANGED futVars

\* Bridge.__checkShutdown completes __closeHook, from the scheduled check or from the
\* finally clause of Bridge.run: __interruptAllTasks completes the task of the delay
RedShutdown ==
    /\ ~IsDone(fut["h"].res)
    /\ SetHeap(checkShutdown([Heap EXCEPT !.br.shutdown = TRUE, !.br.check = FALSE]))
    /\ IF rl.state = "pending"
       THEN /\ rl' = [rl EXCEPT !.state = "done", !.waiters = <<>>]
            /\ rw' = resumeAll("released", ready)
       ELSE UNCHANGED <<rl, rw>>
    /\ UNCHANGED <<ready, fregs, memo, starts, ocalls, bt>>

RedIdle ==
    /\ rl = NoRedLight
    /\ ready = <<>>
    /\ rw = [w \in Waiters |-> NoAwait]

\* ---------------------------------------------------------------- progress units
\* src/mounter/progress.py, class ProgressUnit
Units == {"u1", "u2"}
\* an exception: its class, and for a group the classes of its members
Exc(cls) == [cls |-> cls, of |-> {}]
Group(of) == [cls |-> "Group", of |-> of]
NoExc == Exc("")
ExcClasses == {"KeyboardInterrupt", "SystemExit", "CancelledException",
               "InterruptedException", "BridgeShutdownException", "ValueError"}
Excs == {Exc(c) : c \in ExcClasses}
            \cup {Group({"KeyboardInterrupt"}), Group({"KeyboardInterrupt", "ValueError"})}
NewUnit == [state |-> "PENDING", exited |-> FALSE, exc |-> NoExc, was |-> ""]

\* completion.isInterrupt: a group with a member that is no interrupt is none; any
\* other exception, a group too, is tested against the four classes
isInterruptClass(c) ==
    c \in {"SystemExit", "KeyboardInterrupt", "CancelledException", "InterruptedException"}
isInterrupt(e) ==
    IF e.cls = "Group" /\ \E x \in e.of : ~isInterruptClass(x) THEN FALSE
    ELSE isInterruptClass(e.cls)

\* ProgressUnit.setRunning, setUpToDate
PuSet(u, state) ==
    /\ ~pu[u].exited
    /\ pu' = [pu EXCEPT ![u].state = state]

\* ProgressUnit.__exit__(type, e, traceback): e = NoExc when the block ended normally,
\* which with state PENDING fails the assertion and leaves the state
PuExit(u, e) ==
    /\ ~pu[u].exited
    /\ pu' = [pu EXCEPT ![u] =
                [exited |-> TRUE, exc |-> e, was |-> pu[u].state,
                 state |-> CASE e = NoExc /\ pu[u].state = "RUNNING" -> "DONE"
                             [] e = NoExc -> pu[u].state
                             [] pu[u].state = "PENDING" -> "SKIPPED"
                             [] pu[u].state = "RUNNING" /\ isInterrupt(e) -> "STOPPED"
                             [] pu[u].state = "RUNNING" -> "FAILED"
                             [] OTHER -> pu[u].state]]

ProgIdle == pu = [u \in Units |-> NewUnit]

\* ---------------------------------------------------------------- paths
\* src/mounter/path.py: an absolute path is the sequence of its components, a
\* component a sequence of characters
MaxDepth == 2
Names == {<<"a">>, <<"b">>, <<"a", "b">>}
AbsPaths == UNION {[1..n -> Names] : n \in 0..MaxDepth}

\* Path.__str__: as_posix() without trailing slashes, so the root is the empty string
RECURSIVE PathStr(_)
PathStr(p) == IF p = <<>> THEN <<>> ELSE PathStr(SubSeq(p, 1, Len(p) - 1)) \o <<"/">> \o p[Len(p)]

\* str.startswith
startswith(str, prefix) ==
    Len(prefix) <= Len(str) /\ SubSeq(str, 1, Len(prefix)) = prefix

\* Path.isSubpath(self, other)
isSubpath(self, other) ==
    LET subpath == PathStr(other)
        mypath == PathStr(self)
    IN  /\ startswith(subpath, mypath)
        /\ (Len(subpath) = Len(mypath) \/ subpath[Len(mypath) + 1] = "/")

NoPathCall == [called |-> FALSE, self |-> <<>>, other |-> <<>>, res |-> FALSE]

\* self.isSubpath(other)
PathCall(self, other) ==
    sp' = [called |-> TRUE, self |-> self, other |-> other, res |-> isSubpath(self, other)]

PathIdle == sp = NoPathCall

\* ---------------------------------------------------------------- one step, its command in flight
\* src/mounter/languages/cpp.py (__doPreprocess, __compile, link) and
\* src/mounter/operation/files.py (copyFile): the step seen with its await of the
\* command, over several runs. The dictionary lock() returns for the output is
\* [deps, stable]: deps stands for every component compared with != (dependencyHash
\* or sourceHash, args, the switches, the include versions), Missing = key absent.
MaxStepRuns == 3
StepKinds == {"pre", "compile", "link", "copy"}
Inputs == {1, 2}
NoWitness == [deps |-> Missing, stable |-> Missing]
NoStep == [kind |-> "", wit |-> NoWitness, file |-> "absent", inputs |-> 1,
           phase |-> "idle", runs |-> 0, atDispatch |-> NoWitness, last |-> "",
           same |-> FALSE, skipAfterFail |-> FALSE]

\* the condition of the if statement: TRUE = rebuild; copyFile has no "stable" key
stepMustBuild(kind, wit, inputs, present) ==
    \/ wit.deps # inputs
    \/ kind # "copy" /\ wit.stable # 1
    \/ ~present

\* the dictionary when the command is awaited: __doPreprocess clears it and sets
\* args and dependencyHash, __compile clears it, link and copyFile leave it
atCommand(kind, wit, inputs) ==
    CASE kind = "pre" -> [deps |-> inputs, stable |-> Missing]
      [] kind = "compile" -> NoWitness
      [] OTHER -> wit

\* the value of "stable": True (1) when the command gave no output, else False (0)
StableOf(out) == IF out = "stable" THEN 1 ELSE 0

\* the dictionary when the coroutine is left: __doPreprocess and copyFile write
\* after the await, __compile and link in a finally block
afterCommand(kind, wit, inputs, out) ==
    CASE kind = "pre" -> IF out = "fail" THEN wit ELSE [wit EXCEPT !.stable = StableOf(out)]
      [] kind = "copy" -> IF out = "fail" THEN wit ELSE [wit EXCEPT !.deps = inputs]
      [] OTHER -> [deps |-> inputs, stable |-> StableOf(out)]

\* the first run of a step of this kind
StepNew(kind) ==
    /\ stp.kind = ""
    /\ stp' = [stp EXCEPT !.kind = kind]

\* a run reaches the step: it skips, or awaits the command
StepBegin ==
    /\ stp.kind # "" /\ stp.phase = "idle" /\ stp.runs < MaxStepRuns
    /\ IF stepMustBuild(stp.kind, stp.wit, stp.inputs, stp.file # "absent")
       THEN stp' = [stp EXCEPT !.runs = @ + 1, !.phase = "running",
                               !.wit = atCommand(stp.kind, stp.wit, stp.inputs),
                               !.atDispatch = atCommand(stp.kind, stp.wit, stp.inputs)]
       ELSE stp' = [stp EXCEPT !.runs = @ + 1,
                               !.skipAfterFail = @ \/ (stp.last = "fail" /\ stp.same),
                               !.last = "skip"]

\* the command or the copy ends: out "fail" is a nonzero exit code, an exception of
\* the copy or an interrupt of the await; it leaves the output as it was or partly
\* written
StepEnd(out, partial) ==
    /\ stp.phase = "running"
    /\ stp.kind = "copy" => out # "unstable"
    /\ partial => out = "fail"
    /\ stp' = [stp EXCEPT !.phase = "idle", !.same = TRUE,
                          !.last = IF out = "fail" THEN "fail" ELSE "ok",
                          !.wit = afterCommand(stp.kind, stp.wit, stp.inputs, out),
                          !.file = IF out # "fail" THEN "good"
                                   ELSE IF partial THEN "partial" ELSE @]

\* between two runs an input or a flag changes
StepEdit(i) ==
    /\ stp.kind # "" /\ stp.phase = "idle" /\ i # stp.inputs
    /\ stp' = [stp EXCEPT !.inputs = i, !.same = FALSE]

\* between two runs the output is deleted
StepDelete ==
    /\ stp.kind # "" /\ stp.phase = "idle" /\ stp.file # "absent"
    /\ stp' = [stp EXCEPT !.file = "absent"]

StepIdle == stp = NoStep

\* ---------------------------------------------------------------- stream reader
\* src/mounter/operation/protocol.py, class StreamReaderProtocol, and readAllBytes
MaxChunks == 3
MaxReads == 3
\* "ra" is a task running readAllBytes, "rb" a task that calls read() now and then
Readers == {"ra", "rb"}
\* read() returned None
None == 0
NewReader == [state |-> "idle", buf |-> <<>>, reads |-> 0]
\* data: __data_queue, eof: __eof_or_closed, waiting: the queue of __consumer_queue,
\* paused: __reading_paused; chunks are numbered in the order of their arrival;
\* got: every value a read() returned, with its reader and whether the stream was
\* at its end then
NewStream == [data |-> <<>>, eof |-> FALSE, waiting |-> <<>>, paused |-> FALSE,
              sent |-> 0, got |-> <<>>, rd |-> [r \in Readers |-> NewReader]]

RECURSIVE srRead(_, _), srGive(_, _, _), srRun(_, _)

\* read() of reader r returns x: readAllBytes extends its buffer and reads again, or
\* ends at None
srGive(s, r, x) ==
    LET s1 == [s EXCEPT !.got = Append(@, [r |-> r, x |-> x, eof |-> s.eof,
                                           left |-> Len(s.data)])]
    IN  IF r = "ra"
        THEN IF x = None THEN [s1 EXCEPT !.rd[r].state = "done"]
             ELSE srRead([s1 EXCEPT !.rd[r].buf = Append(@, x)], r)
        ELSE [s1 EXCEPT !.rd[r].state = "idle", !.rd[r].buf = Append(@, x)]

\* StreamReaderProtocol.read up to its await
srRead(s, r) ==
    IF s.data = <<>> \/ s.waiting # <<>>
    THEN IF s.eof THEN srGive(s, r, None)
         ELSE [s EXCEPT !.paused = FALSE, !.waiting = Append(@, r),
                        !.rd[r].state = "waiting"]
    ELSE srGive([s EXCEPT !.data = Tail(@)], r, Head(s.data))

\* StreamReaderProtocol.read after its await
srResume(s, r) ==
    IF s.data = <<>> THEN srGive(s, r, None)
    ELSE srGive([s EXCEPT !.data = Tail(@)], r, Head(s.data))

\* QueueDelayer.run(count); count = 0 - 1 stands for None
srRun(s, count) ==
    IF count = 0 \/ s.waiting = <<>> THEN s
    ELSE srRun(srResume([s EXCEPT !.waiting = Tail(@)], Head(s.waiting)), count - 1)

\* StreamReaderProtocol.data_received
RECURSIVE srDrain(_)
srDrain(s) ==
    IF s.data # <<>> /\ s.waiting # <<>> THEN srDrain(srRun(s, 1))
    ELSE [s EXCEPT !.paused = (@ \/ s.data # <<>>)]
data_received(s, d) == srDrain([s EXCEPT !.data = Append(@, d), !.sent = d])

\* StreamReaderProtocol.__cleanup, called by eof_received and when onClose completes
cleanup_flagOnly(s) == [s EXCEPT !.eof = TRUE]
cleanup(s) == srRun([s EXCEPT !.eof = TRUE], 0 - 1)

\* the transport delivers the next chunk; it delivers nothing while reading is paused
\* or after the end
SrData ==
    /\ ~sr.eof /\ ~sr.paused
    /\ sr.sent < MaxChunks
    /\ sr' = data_received(sr, sr.sent + 1)

\* eof_received, or onClose completes (connection lost, or the bridge shuts down)
SrClose ==
    /\ sr' = cleanup(sr)

\* a task calls readAllBytes (r = "ra") or read() (r = "rb")
SrRead(r) ==
    /\ sr.rd[r].state = "idle"
    /\ sr.rd[r].reads < (IF r = "ra" THEN 1 ELSE MaxReads)
    /\ sr' = srRead([sr EXCEPT !.rd[r].reads = @ + 1], r)

StreamIdle == sr = NewStream

PersIdle ==
    /\ pfile = NoData
    /\ ptime = 0
    /\ proot = NoData
    /\ pres = NoLoad

OpIdle ==
    /\ PersIdle
    /\ FutIdle
    /\ RedIdle
    /\ ProgIdle
    /\ PathIdle
    /\ StepIdle
    /\ StreamIdle

\* ---------------------------------------------------------------- specification
Idle ==
    /\ fs = [p \in Files \cup Dirs |->
                IF p \in OutPaths \cup {Unused} THEN [c |-> Absent, t |-> 0]
                ELSE [c |-> 1, t |-> 0]]
    /\ clock = 0
    /\ phase = "idle"
    /\ run = 0
    /\ items = [k \in Keys |-> EmptyStore]
    /\ jcounter = 0
    /\ counter = 0
    /\ idmap = <<>>
    /\ chk = [k \in Keys |-> NoChecker]
    /\ waiters = [k \in Keys |-> <<>>]
    /\ rets = <<>>
    /\ alloc = <<>>
    /\ rcount = [k \in Keys |-> 0]
    /\ cleared = {}
    /\ streak = [k \in Keys |-> <<>>]
    /\ since = [k \in Keys |-> NoId]
    /\ cfg = Plain
    /\ owner = EmptyFn
    /\ wstore = EmptyFn
    /\ lres = NoResult
    /\ dec = [s \in Steps |-> NoDecision]
    /\ failed = FALSE
    /\ prevClean = FALSE
    /\ changed = FALSE
    /\ edits = 0
    /\ kinds = {}
    /\ WsIdle
    /\ OpIdle

\* the delta service is exercised in the layout with objDirectory elsewhere
DeltaInit == Idle /\ nested = FALSE

DeltaStartRun == StartRun(MaxRuns)
ApiStartRun == StartRun(MaxApiRuns)

DeltaNext ==
    \/ DeltaStartRun
    \/ \E exc \in BOOLEAN : DeltaEndRun(exc)
    \/ \E k \in DeltaKeys : QueryNow(k)
    \/ \E v \in AllocIds : TestNow(v)
    \/ \E c \in Contents : EnvWrite(SourceFile, c)
    \/ EnvDelete(SourceFile)
    \/ EnvToggleUnused

\* the delta service over several runs, each call awaited before the next
SpecDelta == DeltaInit /\ [][DeltaNext]_vars

\* the delta service with concurrent callers and FileDeltaChecker.clear
ApiNext ==
    \/ ApiStartRun
    \/ \E exc \in BOOLEAN : DeltaEndRun(exc)
    \/ \E k \in DeltaKeys : Query(k)
    \/ \E v \in AllocIds : Test(v)
    \/ \E p \in DeltaKeys : BackgroundDone(p)
    \/ \E k \in DeltaKeys : Clear(k)
    \/ \E c \in Contents : EnvWrite(SourceFile, c)
    \/ EnvToggleUnused

SpecDeltaApi == DeltaInit /\ [][ApiNext]_vars

\* the lock table and the witness store over several runs
LockNext ==
    \/ LockStartRun
    \/ LockEndRun
    \/ \E p \in LockPaths : \E id \in OwnerTypes : Lock(p, id)
    \/ \E p \in LockPaths : \E v \in LockValues : WriteWitness(p, v)

SpecLock == DeltaInit /\ [][LockNext]_vars

\* the build of one executable and one copied library over several runs, in
\* either layout
BuildInit == Idle /\ nested \in BOOLEAN

BuildNext ==
    \/ \E c \in Configs : BuildStartRun(c)
    \/ \E exc \in BOOLEAN : BuildEndRun(exc)
    \/ \E out \in Outcomes : Preprocess(out)
    \/ \E out \in Outcomes : Compile(out)
    \/ \E out \in Outcomes : Link(out)
    \/ \E out \in {"stable", "fail"} : Copy(out)
    \/ \E f \in {SourceFile, Header} : \E c \in Contents : BuildWrite(f, c)
    \/ \E p \in OutPaths : BuildDelete(p)
    \/ BuildToggleUnused

SpecBuild == BuildInit /\ [][BuildNext]_vars

\* the scheduler: a driver that registers modules and calls run() once
WsInit == Idle /\ nested = FALSE

WsNext ==
    \/ \E key \in DriverKeys : \E ds \in DepSeqs : DriverAdd(key, ds)
    \/ \E key \in UseKeys : DriverUse(key)
    \/ DriverAppend
    \/ DriverRun
    \/ RunLoop
    \/ \E style \in Styles : HookPre(style)
    \/ \E fail \in BOOLEAN : HookPost(fail)
    \/ Unwind
    \/ ContRun
    \/ ProjectAppend
    \/ ProjectCompleteLater
    \/ \E key \in DriverKeys : ProjectAdd(key)
    \/ ProjectRaise

SpecWs == WsInit /\ [][WsNext]_vars

\* ---------------------------------------------------------------- locks: claims
\* C9: a lock of a path that has no owner in this run makes the caller its owner
\* and changes the owner of no other path; a lock of a path that has an owner,
\* whoever asks, raises and leaves the owner table and the witness store as
\* they were.
C9_LockOncePerRun ==
    lres.op = "lock" =>
        IF lres.ok
        THEN /\ lres.key \notin DOMAIN lres.ownerBefore
             /\ owner = Put(lres.ownerBefore, lres.key, lres.id)
        ELSE /\ lres.key \in DOMAIN lres.ownerBefore
             /\ owner = lres.ownerBefore
             /\ wstore = lres.storeBefore

\* a path that has an owner and a written witness was locked by another owner
C9_Witness ==
    /\ lres.op = "lock"
    /\ ~lres.ok
    /\ lres.ownerBefore[lres.key] # lres.id
    /\ \E k \in DOMAIN wstore : \E v \in DOMAIN wstore[k] : wstore[k][v].keys # {}

\* C10: after the tear-down, an entry for a path under an owner type is gone if
\* the path was locked in this run by another owner type, and is what it was
\* before the tear-down in every other case.
C10_TeardownPrunesOthers ==
    lres.op = "teardown" =>
        \A k \in OwnerTypes : \A v \in OutPaths :
            LET had == k \in DOMAIN lres.storeBefore /\ v \in DOMAIN lres.storeBefore[k]
                kept == k \in DOMAIN wstore /\ v \in DOMAIN wstore[k]
            IN  IF v \in DOMAIN lres.ownerBefore /\ lres.ownerBefore[v] # k
                THEN ~kept
                ELSE /\ kept <=> had
                     /\ kept => wstore[k][v] = lres.storeBefore[k][v]

\* the tear-down removed the entry of an earlier owner of a locked path and
\* kept the written entry of a path that was not locked in this run
C10_Witness ==
    /\ lres.op = "teardown"
    /\ \E k \in DOMAIN lres.storeBefore : \E v \in DOMAIN lres.storeBefore[k] :
           v \in DOMAIN lres.ownerBefore /\ lres.ownerBefore[v] # k
    /\ \E k \in DOMAIN wstore : \E v \in DOMAIN wstore[k] :
           v \notin DOMAIN lres.ownerBefore /\ wstore[k][v].keys # {}

\* ---------------------------------------------------------------- build: claims
\* the keys of the witness a step compares
Components(s) ==
    IF s = "pre" THEN {"args", "dependencyHash", "stable"}
    ELSE IF s = "copy" THEN {"sourceHash"}
    ELSE {"debug", "optimalize", "args", "stable", "dependencyHash"}

\* every key the step compares is stored with the value a stable build would
\* store now
WitnessMatches(s) ==
    \A key \in Components(s) :
        has(dec[s].stored, key) /\ dec[s].stored[key] = dec[s].now[key]

\* C1: a step skips exactly when its output is on disk, every key of the stored
\* witness has the value it would have now, with the stable flag set, and every
\* stored include version passes test.
C1_SkipIffWitnessMatches ==
    \A s \in Steps :
        dec[s].made =>
            (dec[s].skip <=> dec[s].present /\ WitnessMatches(s) /\ dec[s].tests)

\* the preprocessor ran again over an output that was there and wrote the same
\* bytes, and the compile step skipped
C1_Witness ==
    /\ dec["pre"].made /\ ~dec["pre"].skip /\ dec["pre"].present
    /\ dec["compile"].made /\ dec["compile"].skip
    /\ dec["link"].made /\ dec["link"].skip

\* C2 as stated: in a run that follows a run in which every step was up to date
\* or succeeded and was stable, with no change to the file system or the flags
\* in between, every step skips.
C2_SecondRunIdle ==
    phase = "run" /\ prevClean /\ ~changed =>
        \A s \in Steps : dec[s].made => dec[s].skip

\* ---------------------------------------------------------------- delta: claims
\* the calls of the delta service that returned in the last step
Returned == {i \in 1..Len(rets) : rets[i].op \in {"query", "test"}}

\* the digest the content now on disk has
TrueHash(k) ==
    IF k \in Files THEN (IF fs[k].c = Absent THEN Null ELSE Md5File(fs[k].c))
    ELSE IF k \in Dirs THEN Md5Names(getChildren(k))
    ELSE Md5Set(findAll(k), [q \in Keys |-> IF q \in Dirs THEN Md5Names(getChildren(q))
                                            ELSE 0])

\* the first id ever allocated for digest h of path k
FirstVer(k, h) ==
    LET S == {i \in 1..Len(alloc) : alloc[i][2] = k /\ alloc[i][3] = h}
    IN  IF S = {} THEN NoId ELSE alloc[CHOOSE i \in S : \A j \in S : i <= j][1]

\* C3: while the content of a path stays the same, every query of the path, in
\* this run or a later one over the same journal, returns the id that the first
\* query since the content last changed returned.
C3_SameContentSameId ==
    \A i \in Returned :
        rets[i].op = "query" /\ rets[i].first # NoId => rets[i].ver = rets[i].first

\* a query in a later run returned the id an earlier run had allocated
C3_Witness ==
    \E i \in Returned :
        /\ rets[i].op = "query"
        /\ rets[i].ver = rets[i].first
        /\ alloc[Origin(rets[i].ver)][4] < run

C6_CounterMonotonic ==
    /\ \A i, j \in 1..Len(alloc) : i < j => alloc[i][1] < alloc[j][1]
    /\ \A i \in 1..Len(alloc) :
           alloc[i][1] < (IF phase = "run" THEN counter ELSE jcounter)
    /\ jcounter <= counter
    /\ phase = "idle" => jcounter = counter
    /\ \A k \in Keys :
           items[k].id # NoId =>
               /\ items[k].id \in AllocIds
               /\ alloc[Origin(items[k].id)][2] = k
               /\ alloc[Origin(items[k].id)][3] = items[k].hash

\* a run that allocated an id ended by an exception, after an earlier run that
\* had allocated too
C6_Witness ==
    /\ Len(rets) = 1
    /\ rets[1].op = "raise"
    /\ \E i, j \in 1..Len(alloc) : alloc[i][4] < alloc[j][4] /\ alloc[j][4] = run

\* C7: a path that was not cleared is refreshed at most once in a run; callers
\* wait only on a refresh that is running, and the callers one refresh resumes
\* all see the same digest.
C7_RefreshOnce ==
    /\ \A k \in Keys : k \notin cleared => rcount[k] <= 1
    /\ \A k \in Keys : waiters[k] # <<>> => chk[k].task = "running"
    /\ \A i, j \in Returned :
           rets[i].key = rets[j].key => rets[i].hash = rets[j].hash

\* one refresh resumed two callers
C7_Witness ==
    /\ Cardinality(Returned) = 2
    /\ rcount[rets[1].key] = 1
    /\ rets[1].key \notin cleared

\* C8 as stated: after a query of a path that does not exist the store has a
\* null hash, a null time and no id.
C8_AbsentHasNoId ==
    \A i \in Returned :
        rets[i].op = "query" /\ rets[i].key \in Files /\ fs[rets[i].key].c = Absent =>
            /\ items[rets[i].key].hash = Null
            /\ items[rets[i].key].time = Null
            /\ items[rets[i].key].id = NoId

\* ---------------------------------------------------------------- build: claims (2)
\* C11: in a run that follows a run in which every step was up to date or
\* stable, with the same flags, where in between only a header that nothing
\* includes appeared or disappeared, or only the preprocessed file was deleted,
\* the preprocessor runs again, and the compile and link steps skip.
C11_SameBytesDownstreamSkips ==
    phase = "run" /\ prevClean /\ kinds # {} /\ kinds \subseteq {"unused", PreFile} =>
        /\ dec["pre"].made => ~dec["pre"].skip
        /\ dec["compile"].made => dec["compile"].skip
        /\ dec["link"].made => dec["link"].skip

\* after an unused header appeared the preprocessor ran again and wrote the same
\* bytes, and the compile and link steps skipped
C11_Witness ==
    /\ phase = "run" /\ prevClean /\ kinds = {"unused"}
    /\ dec["pre"].made /\ dec["pre"].out \in {"stable", "unstable"}
    /\ dec["compile"].made /\ dec["compile"].skip
    /\ dec["link"].made /\ dec["link"].skip

\* ---------------------------------------------------------------- scheduler: claims
InTopology(key) ==
    \E i \in 1..Len(workspace.topology) :
        workspace.topology[i].kind = "module" /\ workspace.topology[i].key = key
posOf(key) ==
    CHOOSE i \in 1..Len(workspace.topology) :
        workspace.topology[i].kind = "module" /\ workspace.topology[i].key = key

\* C12: whatever add() calls were made, a module that is in the topology comes
\* after every module it added during its own activation, and each of those is
\* in the topology.
C12_DependenciesPrecede ==
    \A pair \in addedBy :
        InTopology(pair[1]) =>
            InTopology(pair[2]) /\ posOf(pair[2]) < posOf(pair[1])

\* the project, which added FileManagement, and FileManagement with all the
\* modules it depends on are in the topology
C12_Witness ==
    /\ <<"Project", "FileManagement">> \in addedBy
    /\ <<"FileManagement", "Persistence">> \in addedBy
    /\ <<"Bridge", "AsyncioLoop">> \in addedBy
    /\ InTopology("Project")
    /\ Len(workspace.topology) >= 6

IsEnter(i, pos) == hist[i].e = "enter" /\ hist[i].pos = pos
\* the entry at this position was in the topology when run() returned
AtReturn(pos) ==
    \/ workspace.topology[pos].kind = "hook"
    \/ \E i \in 1..Len(topoAtRun) : topoAtRun[i] = workspace.topology[pos]
KeyAt(pos) ==
    IF workspace.topology[pos].kind = "module" THEN workspace.topology[pos].key ELSE ""

\* C13: from the driver's single run() call on, the hooks of the topology's
\* entries are entered one by one in topology order, none twice and none before
\* its predecessor, whether or not a hook calls back into run(); when run() has
\* returned, every entry's hook has been entered exactly once; and a module's
\* hook is entered only after the hook of every module it added in its
\* activation.
C13_HooksOnceInOrder ==
    /\ \A i, j \in DOMAIN hist :
          i < j /\ hist[i].e = "enter" /\ hist[j].e = "enter" =>
              hist[i].pos < hist[j].pos
    /\ \A i \in DOMAIN hist :
          hist[i].e = "enter" =>
              \A q \in 1..(hist[i].pos - 1) : \E j \in 1..(i - 1) : IsEnter(j, q)
    /\ driver = "returned" =>
          \A pos \in 1..Len(workspace.topology) :
              AtReturn(pos) => Cardinality({i \in DOMAIN hist : IsEnter(i, pos)}) = 1
    /\ \A pair \in addedBy : \A i \in DOMAIN hist :
          hist[i].e = "enter" /\ KeyAt(hist[i].pos) = pair[1] =>
              \E j \in 1..(i - 1) :
                  hist[j].e = "enter" /\ KeyAt(hist[j].pos) = pair[2]

\* run() has returned from a topology of six modules and a continuation, in
\* which the project's hook returned without a downstream call
C13_Witness ==
    /\ driver = "returned"
    /\ Len(workspace.topology) >= 7
    /\ \A pos \in 1..Len(workspace.topology) : \E i \in DOMAIN hist : IsEnter(i, pos)
    /\ \E pos \in 1..Len(workspace.topology) :
          /\ KeyAt(pos) = "Project"
          /\ pos < Len(workspace.topology)
          /\ \A i \in DOMAIN hist : ~(hist[i].e = "post" /\ hist[i].pos = pos)

IsLeave(i, pos) == hist[i].e = "leave" /\ hist[i].pos = pos

\* C14: when the code after a module's downstream call runs, no hook of a later
\* entry is still in progress; when the downstream call returned, the hook of
\* every module later in the topology has been entered and has ended, its
\* tear-down included; and the tear-down sections run in reverse topology order.
C14_TeardownInReverse ==
    /\ \A i \in DOMAIN hist :
          hist[i].e = "post" =>
              /\ \A j \in 1..(i - 1) :
                    hist[j].e = "enter" /\ hist[j].pos > hist[i].pos =>
                        \E k \in (j + 1)..(i - 1) : IsLeave(k, hist[j].pos)
              /\ hist[i].ph = "return" =>
                    \A q \in (hist[i].pos + 1)..Len(workspace.topology) :
                        KeyAt(q) # "" => \E k \in 1..(i - 1) : IsLeave(k, q)
    /\ \A i, j \in DOMAIN hist :
          i < j /\ hist[i].e = "post" /\ hist[j].e = "post" =>
              hist[i].pos > hist[j].pos

\* run() has returned and the tear-down sections of five modules have run
C14_Witness ==
    /\ driver = "returned"
    /\ Cardinality({i \in DOMAIN hist : hist[i].e = "post"}) >= 5
    /\ \E i \in DOMAIN hist : hist[i].e = "save"

\* C15 as stated: once run() has been called every later add() fails, and the
\* sequence of modules in the topology never changes again.
C15_NoAddAfterRun ==
    driver # "discovery" =>
        /\ modulesOf(workspace.topology) = topoAtRun
        /\ lastAdd.afterRun => lastAdd.log[Len(lastAdd.log)].raised

\* C16: an add() call for a key whose instance is active leaves the topology and
\* both registries as they were and activates nothing, and when it returns it
\* returns the instance that was active. (In the execution phase the call
\* raises instead of returning.)
C16_AddIsIdempotent ==
    \A i \in DOMAIN lastAdd.log :
        \E c \in {lastAdd.log[i]} :
            hasItem(c.pre, c.key) =>
                /\ c.post = c.pre
                /\ c.act = <<>>
                /\ ~c.raised => c.ret = c.pre.activeModules[c.key]

\* FileManagement was added when Persistence was already active: the add() of
\* its constructor returned the instance registered with use()
C16_Witness ==
    \E i \in DOMAIN lastAdd.log :
        \E c \in {lastAdd.log[i]} :
            /\ i < Len(lastAdd.log)
            /\ c.key = "Persistence"
            /\ hasItem(c.pre, c.key)
            /\ ~c.raised
            /\ c.ret = ModuleEntry("Persistence", "used")
            /\ Len(c.pre.topology) >= 2

\* C17: a module registered with use() that has not been named in an add() is
\* in neither the active registry nor the topology, has not been activated and
\* has had no hook entered; and an add() that names its key activates the
\* registered instance, returns it and appends it to the topology.
C17_UsedOnlyWhenAdded ==
    /\ \A key \in DOMAIN workspace.inactiveModules :
          /\ key \notin DOMAIN workspace.activeModules
          /\ ~InTopology(key)
          /\ \A i \in DOMAIN activated : activated[i].key # key
          /\ \A i \in DOMAIN hist : hist[i].e = "enter" => KeyAt(hist[i].pos) # key
    /\ \A i \in DOMAIN lastAdd.log :
          \E c \in {lastAdd.log[i]} :
              c.key \in DOMAIN c.pre.inactiveModules /\ addAllowed(c.pre) =>
                  /\ c.act # <<>>
                  /\ c.act[1] = c.pre.inactiveModules[c.key]
                  /\ c.key \notin DOMAIN c.post.inactiveModules
                  /\ ~c.raised =>
                        /\ c.ret = c.pre.inactiveModules[c.key]
                        /\ c.post.topology[Len(c.post.topology)] = c.ret

\* the constructor of FileManagement added Persistence, for which the driver
\* had registered an instance with use()
C17_Witness ==
    \E i \in DOMAIN lastAdd.log :
        \E c \in {lastAdd.log[i]} :
            /\ i < Len(lastAdd.log)
            /\ c.key = "Persistence"
            /\ c.key \in DOMAIN c.pre.inactiveModules
            /\ c.ret = ModuleEntry("Persistence", "used")
            /\ c.act = <<c.ret>>
            /\ lastAdd.log[Len(lastAdd.log)].key = "FileManagement"

\* C18: a continuation registered with append is never entered twice, and when
\* the outermost run() has returned it has been entered exactly once; it is
\* entered after its registration and after the hook of every module that was
\* in the topology when it was registered; and when a module's hook registered
\* it before its downstream call, the continuation is not entered after that
\* module's tear-down, and has been entered when the tear-down follows a
\* downstream call that returned.
C18_ContinuationOnce ==
    \A a \in DOMAIN hist :
        hist[a].e = "append" =>
            /\ Cardinality({j \in DOMAIN hist : IsEnter(j, hist[a].pos)}) <= 1
            /\ driver = "returned" => \E j \in DOMAIN hist : IsEnter(j, hist[a].pos)
            /\ \A j \in DOMAIN hist :
                  IsEnter(j, hist[a].pos) =>
                      /\ a < j
                      /\ workspace.topology[hist[a].pos].kind = "hook"
                      /\ \A q \in 1..(hist[a].pos - 1) :
                            KeyAt(q) # "" => \E k \in 1..(j - 1) : IsEnter(k, q)
            /\ hist[a].ph = "pre" =>
                  \A k \in DOMAIN hist :
                      hist[k].e = "post" /\ hist[k].pos = hist[a].by =>
                          /\ \A j \in (k + 1)..Len(hist) : ~IsEnter(j, hist[a].pos)
                          /\ hist[k].ph = "return" =>
                                \E j \in 1..(k - 1) : IsEnter(j, hist[a].pos)

\* the project's hook handed a future to the loop before its downstream call:
\* the drain continuation ran the future, then the project's tear-down ran and
\* run() returned
C18_Witness ==
    /\ driver = "returned"
    /\ \E a, j, t, k \in DOMAIN hist :
          /\ hist[a].e = "append" /\ hist[a].ph = "pre"
          /\ workspace.topology[hist[a].pos].key = "drain"
          /\ IsEnter(j, hist[a].pos)
          /\ hist[t].e = "task" /\ hist[t].pos = hist[a].pos
          /\ hist[k].e = "post" /\ hist[k].pos = hist[a].by
          /\ a < j /\ j < t /\ t < k

Saves == {i \in DOMAIN hist : hist[i].e = "save"}
Raised(i) == hist[i].e = "leave" /\ hist[i].ph = "raise"

C20_SaveAfterLoop ==
    /\ InTopology("Persistence") /\ InTopology("AsyncioLoop") =>
          posOf("Persistence") < posOf("AsyncioLoop")
    /\ \A i \in DOMAIN lastAdd.log :
          \E c \in {lastAdd.log[i]} :
              /\ c.key = "Persistence"
              /\ "AsyncioLoop" \in DOMAIN c.pre.activeModules
              /\ ~hasItem(c.pre, "Persistence")
              => c.raised
    /\ \A s \in Saves :
          /\ \A j \in 1..(s - 1) :
                hist[j].e = "enter" /\ KeyAt(hist[j].pos) = "AsyncioLoop" =>
                    \E k \in (j + 1)..(s - 1) :
                        hist[k].e = "post" /\ hist[k].pos = hist[j].pos
          /\ \A j \in (s + 1)..Len(hist) : hist[j].e \notin {"task", "mutate"}

\* a hook raised while a future was pending: the loop's tear-down ran the
\* future, FileManagement pruned the store, and the journal was saved after
\* both
C20_Witness ==
    /\ InTopology("AsyncioLoop")
    /\ \E t, m, s \in DOMAIN hist :
          /\ hist[t].e = "task" /\ hist[t].pos = posOf("AsyncioLoop")
          /\ hist[m].e = "mutate"
          /\ s \in Saves
          /\ m < t /\ t < s
    /\ driver = "raised"

\* the persistence module over several runs
PersOther == <<envVars, deltaVars, buildCore, wsVars, futVars, auxVars>>
PersNext ==
    \/ PersLoad /\ UNCHANGED PersOther
    \/ \E v \in {0, 1} : PersLookup(v) /\ UNCHANGED PersOther
    \/ PersSave /\ UNCHANGED PersOther
    \/ PersTick /\ UNCHANGED PersOther
    \/ \E f \in ExternalFiles : PersExternal(f) /\ UNCHANGED PersOther

SpecPers == WsInit /\ [][PersNext]_vars

\* ================================================================ C21
\* C21: whenever _loadPersistenceFile has run, it ended without an exception, and the
\* store it left is a fresh one holding only the creation entry with the current time
\* if the file was missing, had no creation entry, or its creation entry was older than
\* thirty days; otherwise the store is the content of the file, creation entry included.
C21_DiscardOrKeep ==
    pres.done =>
        LET discard == \/ ~pres.file.exists
                       \/ pres.file.created = Missing
                       \/ pres.time - pres.file.created > ThirtyDays
        IN  /\ pres.raised = ""
            /\ pres.root = IF discard THEN Obj(pres.time, Missing) ELSE pres.file

\* continuations on the futures of a caller
FutOther == <<envVars, deltaVars, buildCore, wsVars, persVars, auxVars>>
RedOther == <<envVars, deltaVars, buildCore, wsVars, persVars, pu, sp, stp, sr>>
ProgOther == <<envVars, deltaVars, buildCore, wsVars, persVars, futVars, redVars, sp, stp, sr>>
PathOther == <<envVars, deltaVars, buildCore, wsVars, persVars, futVars, redVars, pu, stp, sr>>
StreamOther == <<envVars, deltaVars, buildCore, wsVars, persVars, futVars, redVars, pu, sp, stp>>
StepOther == <<envVars, deltaVars, buildCore, wsVars, persVars, futVars, redVars, pu, sp, sr>>
FutNext ==
    \/ \E f \in Kids, c \in ContKinds : FThen(f, c[1], c[2]) /\ UNCHANGED FutOther
    \/ \E f \in Kids : \E o \in KidOutcomes(f) : FSet(f, o) /\ UNCHANGED FutOther

SpecFut == WsInit /\ [][FutNext]_vars

\* the positions in the log of the calls of continuation n of future f
CallsOf(n, f) == {i \in DOMAIN flog : flog[i] = FEv("call", n, f)}
CallPos(n, f) == CHOOSE i \in CallsOf(n, f) : TRUE

\* ================================================================ C22
\* C22: a continuation registered with then() is never invoked while its future is
\* not complete and has been invoked exactly once as soon as it is; the continuations
\* registered before the completion were invoked in the order of their registration,
\* one registered after the completion was invoked inside its then() call, before
\* anything else, and one registered by a running continuation likewise.
C22_ContinuationsOnceInOrder ==
    /\ \A i \in DOMAIN fregs :
        LET r == fregs[i]
        IN  /\ fut[r.f].open => CallsOf(r.n, r.f) = {}
            /\ ~fut[r.f].open => Cardinality(CallsOf(r.n, r.f)) = 1
            /\ (~fut[r.f].open /\ ~r.early) => CallPos(r.n, r.f) = r.at + 1
    /\ \A i, j \in DOMAIN fregs :
        (i < j /\ fregs[i].f = fregs[j].f /\ fregs[i].early /\ fregs[j].early
           /\ ~fut[fregs[i].f].open)
        => CallPos(fregs[i].n, fregs[i].f) < CallPos(fregs[j].n, fregs[j].f)
    /\ \A i \in DOMAIN flog :
        (flog[i].ev = "call" /\ flog[i].n < 0) =>
            /\ i > 1 /\ flog[i - 1] = FEv("call", 0 - flog[i].n, flog[i].f)
            /\ Cardinality(CallsOf(flog[i].n, flog[i].f)) = 1

\* a complete future with two continuations registered before its completion and one
\* after it; one of them registered a further one while it ran, and an exception of a
\* continuation left the caller's last call
C22_Witness ==
    \E f \in Kids :
        /\ ~fut[f].open
        /\ Cardinality({i \in DOMAIN fregs : fregs[i].f = f /\ fregs[i].early}) = 2
        /\ \E i \in DOMAIN fregs : fregs[i].f = f /\ ~fregs[i].early
        /\ \E i \in DOMAIN flog : flog[i].ev = "call" /\ flog[i].n < 0
        /\ fup # ""

\* a Gather over the futures of a caller
Policies == {"tuple", "cancel", "or", "and"}
ArgOrders == {<<"a", "b">>, <<"b", "a">>}
GatherNext ==
    \/ \E p \in Policies, args \in ArgOrders : NewGather(p, args) /\ UNCHANGED FutOther
    \/ \E f \in Kids : \E o \in KidOutcomes(f) : FSet(f, o) /\ UNCHANGED FutOther
    \/ \E c \in {<<"log", "">>, <<"raise", "Ec">>} :
            FThen("g", c[1], c[2]) /\ UNCHANGED FutOther

SpecGather == WsInit /\ [][GatherNext]_vars

ArgRes(i) == fut[gat.args[i]].res

\* ================================================================ C23
\* C23: the future of gather(t1, t2) is completed at most once; as soon as a child has
\* failed it is complete with the exception of a failed child, whatever the state of
\* the other child; when both children succeeded it is complete with the tuple of
\* their results in argument order; and it is not complete otherwise.
C23_TupleGather ==
    (gat.made /\ gat.policy = "tuple") =>
        LET g == fut["g"]
            anyFailed == \E i \in DOMAIN gat.args : IsFailed(ArgRes(i))
            allDone == \A i \in DOMAIN gat.args : IsDone(ArgRes(i))
        IN  /\ g.sets = IF IsDone(g.res) THEN 1 ELSE 0
            /\ anyFailed =>
                    /\ IsFailed(g.res)
                    /\ \E i \in DOMAIN gat.args : IsFailed(ArgRes(i)) /\ g.res = ArgRes(i)
            /\ (allDone /\ ~anyFailed) =>
                    g.res = TupleOf([i \in DOMAIN gat.args |-> ArgRes(i).v[1]])
            /\ (~allDone /\ ~anyFailed) => ~IsDone(g.res)

\* the gather failed on one child while the other was pending, which then completed
C23_Witness ==
    /\ gat.made /\ gat.policy = "tuple"
    /\ IsFailed(fut["g"].res)
    /\ \E i \in DOMAIN gat.seen : ~IsDone(gat.seen[i])
    /\ \A i \in DOMAIN gat.args : IsDone(ArgRes(i))
    /\ ~fut["g"].open /\ \E i \in DOMAIN flog : flog[i].f = "g"

\* ================================================================ C24
\* C24: the future of Gather(core, cancel, policy = cancelPolicy) is completed at most
\* once, and it is complete exactly when core is done or cancel has failed: a cancel
\* that succeeded leaves it pending.  It holds cancel's failure if cancel had failed
\* when it completed and core's outcome otherwise; and when it completed, core was
\* done and cancel failed together only if both were so before the gather was made.
C24_CancelGather ==
    (gat.made /\ gat.policy = "cancel") =>
        LET g == fut["g"]
        IN  /\ g.sets = IF IsDone(g.res) THEN 1 ELSE 0
            /\ IsDone(g.res) <=> (IsDone(ArgRes(1)) \/ IsFailed(ArgRes(2)))
            /\ IsDone(g.res) =>
                /\ g.res = IF IsFailed(gat.seen[2]) THEN gat.seen[2] ELSE gat.seen[1]
                /\ (IsDone(gat.seen[1]) /\ IsFailed(gat.seen[2]))
                        => (IsDone(gat.born[1]) /\ IsFailed(gat.born[2]))
                /\ \A i \in {1, 2} : IsDone(gat.seen[i]) => gat.seen[i] = ArgRes(i)

\* both children were pending when the gather was made, cancel succeeded first and
\* left the gather pending, and the gather then completed with core's outcome
C24_Witness ==
    /\ gat.made /\ gat.policy = "cancel"
    /\ ~IsDone(gat.born[1]) /\ ~IsDone(gat.born[2])
    /\ gat.seen[2] = Value("True")
    /\ IsDone(fut["g"].res) /\ fut["g"].res = ArgRes(1)

\* ================================================================ C25
\* C25: when the future of gatherOr (resp. gatherAnd) completed and a child had then
\* completed with True (resp. False), it holds that result, whatever the other child
\* had done and in whichever argument order; when no child had, it holds the
\* exception of a failed child, or False (resp. True) if all children had completed;
\* and it is complete as soon as one of these is the case.
C25_BoolGather ==
    (gat.made /\ gat.policy \in {"or", "and"}) =>
        LET g == fut["g"]
            deciding == Value(IF gat.policy = "or" THEN "True" ELSE "False")
            other == Value(IF gat.policy = "or" THEN "False" ELSE "True")
            decided(S) == \E i \in DOMAIN S : S[i] = deciding
            anyFailed(S) == \E i \in DOMAIN S : IsFailed(S[i])
            allDone(S) == \A i \in DOMAIN S : IsDone(S[i])
            now == [i \in DOMAIN gat.args |-> ArgRes(i)]
        IN  /\ IsDone(g.res) <=> (decided(now) \/ anyFailed(now) \/ allDone(now))
            /\ IsDone(g.res) =>
                IF decided(gat.seen) THEN g.res = deciding
                ELSE IF anyFailed(gat.seen)
                THEN \E i \in DOMAIN gat.seen : IsFailed(gat.seen[i]) /\ g.res = gat.seen[i]
                ELSE g.res = other

\* Tasks over coroutines that await the futures of a caller, and a task that awaits
\* the first task
TaskPrograms ==
    {<<"t", aw, end>> : aw \in {<<>>, <<"a">>, <<"b", "a">>}, end \in {"ret", "Et", "KI"}}
        \cup {<<"u", <<"t">>, "ret">>}
TaskNext ==
    \/ \E p \in TaskPrograms : NewTask(p[1], p[2], p[3]) /\ UNCHANGED FutOther
    \/ \E f \in Kids : \E o \in KidOutcomes(f) : FSet(f, o) /\ UNCHANGED FutOther
    \/ \E f \in TaskIds, c \in ContKinds \ {<<"then", "">>} :
            FThen(f, c[1], c[2]) /\ UNCHANGED FutOther

SpecTask == WsInit /\ [][TaskNext]_vars

\* the end of the _advance call in which the coroutine raised at log position i
LeftAt(i) ==
    CHOOSE j \in DOMAIN flog :
        /\ j > i /\ flog[j].ev = "left" /\ flog[j].f = flog[i].f
        /\ \A m \in (i + 1) .. (j - 1) : ~(flog[m].ev = "left" /\ flog[m].f = flog[i].f)
\* a continuation registered by the caller as one that raises was called at position m
RaisingCall(m) ==
    /\ flog[m].ev = "call"
    /\ flog[m].n \in DOMAIN fregs
    /\ fregs[flog[m].n].k = "raise"

\* ================================================================ C26
\* C26: whenever the coroutine of a task raised an exception that is not an interrupt
\* (its own, the one of a failed future it awaited, or the wrapper of an interrupt it
\* met by awaiting a task), the task is failed with that very exception, and the
\* _advance call was not left by it: it returned, unless a continuation called in
\* between raised.  Whenever the coroutine raised an interrupt, the task is failed
\* with the InterruptedException wrapper and the interrupt itself left the _advance
\* call.
C26_TaskFailure ==
    \A i \in DOMAIN flog :
        flog[i].ev = "raised" =>
            LET e == flog[i].x
                t == flog[i].f
                out == flog[LeftAt(i)].x
            IN  IF e = "KI"
                THEN fut[t].res = Failure("IE") /\ out = "KI"
                ELSE /\ fut[t].res = Failure(e)
                     /\ out # e
                     /\ out # "" => \E m \in (i + 1) .. (LeftAt(i) - 1) : RaisingCall(m)

\* the first task raised an interrupt when a future it awaited completed, the
\* interrupt reached the caller, and the task that awaited the first failed with the
\* wrapper while the call that stepped it returned
C26_Witness ==
    /\ fup = "KI"
    /\ fut["t"].res = Failure("IE")
    /\ fut["u"].res = Failure("IE")
    /\ \E i \in DOMAIN flog : flog[i] = TEv("left", "u", "")
    /\ \E i \in DOMAIN flog : flog[i] = TEv("raised", "t", "KI")
    /\ IsDone(fut["a"].res)

\* a Lazy whose thunk awaits a future of the caller
LazyNext ==
    \/ \E aw \in {<<>>, <<"a">>}, end \in {"ret", "Et", "KI"} :
            NewLazy(aw, end) /\ UNCHANGED FutOther
    \/ LazyStart /\ UNCHANGED FutOther
    \/ \E c \in ContKinds : LazyThen(c[1], c[2]) /\ UNCHANGED FutOther
    \/ LazyAwait /\ UNCHANGED FutOther
    \/ \E o \in KidOutcomes("a") : FSet("a", o) /\ UNCHANGED FutOther

SpecLazy == WsInit /\ [][LazyNext]_vars

\* ================================================================ C27
\* C27: the thunk of a Lazy has not been invoked while neither start(), then() nor
\* await was used on it, and has been invoked exactly once afterwards, however many
\* of them followed; the one task it made is completed at most once, the Lazy holds
\* the task's outcome as soon as there is one, every continuation registered through
\* the Lazy has been called exactly once by then, and a task that awaited the Lazy
\* got the same outcome.
C27_LazyOnce ==
    lz.made =>
        /\ lz.calls = IF lz.touched THEN 1 ELSE 0
        /\ lz.task <=> lz.touched
        /\ tk["t"].made <=> lz.touched
        /\ fut["t"].sets <= 1
        /\ fut["z"].res = fut["t"].res
        /\ \A i \in DOMAIN fregs :
                Cardinality(CallsOf(fregs[i].n, "t")) = IF IsDone(fut["t"].res) THEN 1 ELSE 0
        /\ tk["u"].made =>
                fut["u"].res = IF IsFailed(fut["t"].res) \/ ~IsDone(fut["t"].res)
                               THEN fut["t"].res ELSE Value("1")

\* the Lazy was awaited by a task and given two continuations while its thunk's
\* coroutine was waiting; the coroutine then failed
C27_Witness ==
    /\ lz.made /\ lz.calls = 1
    /\ tk["u"].made
    /\ Len(fregs) >= 2 /\ \A i \in DOMAIN fregs : fregs[i].early
    /\ lz.awaits = <<"a">>
    /\ IsFailed(fut["u"].res)
    /\ fut["a"].res = Value("True")

\* the two decorated methods of one object, called again and again
OnceNext ==
    \/ \E x \in OnceArgs, body \in {"ret", "Et"} : OnceCall(x, body) /\ UNCHANGED FutOther
    \/ \E x \in OnceArgs, aw \in {<<>>, <<"a">>}, end \in {"ret", "Et", "KI"},
          failFast \in BOOLEAN :
            OpCall(x, aw, end, failFast) /\ UNCHANGED FutOther
    \/ \E o \in KidOutcomes("a") : FSet("a", o) /\ UNCHANGED FutOther

SpecOnce == WsInit /\ [][OnceNext]_vars

\* ================================================================ C28
\* C28: for each of the two methods and each argument the body has been started at
\* most once, by the first call, and the calls that got something got the same: the
\* value of the first call of f, the one task of g, whether it was pending, complete
\* or failed when they called.
C28_StartedOnce ==
    /\ \A fn \in {"f", "g"}, x \in OnceArgs : starts[fn][x] <= 1
    /\ \A i, j \in DOMAIN ocalls :
        (i < j /\ ocalls[i].fn = ocalls[j].fn /\ ocalls[i].x = ocalls[j].x) =>
            /\ ~ocalls[j].started
            /\ (ocalls[i].got # "" /\ ocalls[j].got # "") => ocalls[i].got = ocalls[j].got

\* ---------------------------------------------------------------- the bridge
\* the kinds of call made for each of the two futures, and the continuations
KindsOf(b) == IF b = "p" THEN {"task", "async"} ELSE {"concurrent", "timeout"}
BridgeConts == {<<"log", "">>, <<"raise", "Ea">>, <<"raise", "KI">>}

BridgeNext ==
    \/ \E b \in BridgeIds : \E kind \in KindsOf(b) : BridgeCall(b, kind) /\ UNCHANGED FutOther
    \/ \E b \in BridgeIds : \E o \in WorkOutcomes(bt[b].kind) :
            BridgeWork(b, o) /\ UNCHANGED FutOther
    \/ \E b \in BridgeIds, c \in BridgeConts : BridgeThen(b, c[1], c[2]) /\ UNCHANGED FutOther
    \/ BridgeShutdown /\ UNCHANGED FutOther
    \/ BridgeCheck /\ UNCHANGED FutOther
    \/ BridgeReturn /\ UNCHANGED FutOther

SpecBridge == WsInit /\ [][BridgeNext]_vars

\* the future a bridge call returned
ReturnedBy(b) == fut[bt[b].ret]

\* C29: every future a bridge call returned completes once; its outcome is that of
\* the work if the work ended before the bridge shut down, and BridgeShutdownException
\* from the moment of the shutdown on otherwise; what comes later changes nothing.
C29_WorkOrShutdown ==
    \A b \in BridgeIds : bt[b].made =>
        /\ ReturnedBy(b).sets <= 1
        /\ IsDone(ReturnedBy(b).res) => ReturnedBy(b).res \in {bt[b].work, Failure("BSE")}
        /\ bt[b].workFirst => ReturnedBy(b).res = bt[b].work
        /\ IsDone(fut["h"].res) /\ ~bt[b].workFirst => ReturnedBy(b).res = Failure("BSE")

\* C30: once Bridge.run has been left no future of a bridge call is pending, and a
\* bridge call made after the shutdown returns a completed future.
C30_NothingPendingAfterRun ==
    \A b \in BridgeIds : bt[b].made =>
        /\ br.phase = "returned" => IsDone(ReturnedBy(b).res)
        /\ bt[b].late => IsDone(ReturnedBy(b).res)

\* ---------------------------------------------------------------- the red light
RedNext ==
    \/ \E w \in Waiters : RedAwait(w) /\ UNCHANGED RedOther
    \/ \E w \in Waiters : RedForget(w) /\ UNCHANGED RedOther
    \/ LoopCallSoon /\ UNCHANGED RedOther
    \/ LoopRunOne /\ UNCHANGED RedOther
    \/ BridgeShutdown /\ UNCHANGED <<RedOther, redVars>>
    \/ RedShutdown /\ UNCHANGED RedOther

SpecRed == WsInit /\ [][RedNext]_vars

\* ================================================================ C31
\* C31: an await of the red light is never resumed inline and never fails while the
\* bridge is open; it is resumed by a later callback of the loop, after every callback
\* that was scheduled before the await has run; at the shutdown it is released.
C31_RedLightYields ==
    \A w \in Waiters : rw[w].made =>
        /\ rw[w].resumed # "error"
        /\ rw[w].resumed = "inline" => rw[w].shut
        /\ rw[w].resumed = "later" => ~rw[w].early

\* ---------------------------------------------------------------- the progress units
ProgNext ==
    \/ \E u \in Units, state \in {"RUNNING", "UP_TO_DATE"} : PuSet(u, state) /\ UNCHANGED ProgOther
    \/ \E u \in Units, e \in Excs \cup {NoExc} : PuExit(u, e) /\ UNCHANGED ProgOther

SpecProg == WsInit /\ [][ProgNext]_vars

\* what aborts a step: the interrupts, and the marker the bridge fails its tasks with
\* at SIGINT and at tear-down
AbortedBy(e) ==
    e.cls \in {"KeyboardInterrupt", "SystemExit", "CancelledException",
               "InterruptedException", "BridgeShutdownException"}

\* ================================================================ C32
\* C32: a unit that was running when its step was aborted by an interrupt or by the
\* bridge's shutdown marker ends stopped; a running unit ends failed only for other
\* errors.
C32_AbortedIsStopped ==
    \A u \in Units : pu[u].exited /\ pu[u].was = "RUNNING" =>
        /\ AbortedBy(pu[u].exc) => pu[u].state = "STOPPED"
        /\ pu[u].state = "FAILED" => ~AbortedBy(pu[u].exc)

\* ---------------------------------------------------------------- paths
PathNext == \E self \in AbsPaths, other \in AbsPaths : PathCall(self, other) /\ UNCHANGED PathOther

SpecPath == WsInit /\ [][PathNext]_vars

\* path p is q or lies under the directory q, component by component
LiesUnder(p, q) == Len(q) <= Len(p) /\ SubSeq(p, 1, Len(q)) = q

\* ================================================================ C33
\* C33: self.isSubpath(other) holds exactly when self lies under other by whole
\* components: "/a/b".isSubpath("/a") holds, and a sibling that only shares a string
\* prefix, as "/a" and "/ab", is no subpath in either direction.
C33_IsSubpath ==
    sp.called => (sp.res <=> LiesUnder(sp.self, sp.other))

\* ---------------------------------------------------------------- one step over its runs
StepNext ==
    \/ \E kind \in StepKinds : StepNew(kind) /\ UNCHANGED StepOther
    \/ StepBegin /\ UNCHANGED StepOther
    \/ \E out \in Outcomes, partial \in BOOLEAN : StepEnd(out, partial) /\ UNCHANGED StepOther
    \/ \E i \in Inputs : StepEdit(i) /\ UNCHANGED StepOther
    \/ StepDelete /\ UNCHANGED StepOther

SpecStep == WsInit /\ [][StepNext]_vars

\* a stored witness that lets a run with these inputs and a present output skip
Usable(wit) == ~stepMustBuild(stp.kind, wit, stp.inputs, TRUE)

\* ================================================================ C34
\* C34: while the command or copy of a rebuilding step is in flight the stored witness
\* is cleared, so that it cannot let a run skip, and it is a witness again only after
\* the command has succeeded.
C34_ClearedThenRepopulated ==
    /\ stp.phase = "running" => ~Usable(stp.wit)
    /\ stp.phase = "idle" /\ stp.last = "fail" => ~Usable(stp.wit)

\* ================================================================ C35
\* C35: a run never skips a step whose command or copy failed or was interrupted in
\* the run before while inputs and flags are unchanged, whatever the failure left on
\* disk.
C35_NoSkipAfterFailure ==
    ~stp.skipAfterFail

\* ---------------------------------------------------------------- completing twice
\* copyFrom(g) takes the outcome of the other future, which must be done
SetNext ==
    \/ \E f \in Kids, c \in {<<"log", "">>, <<"raise", "Ec">>} :
            FThen(f, c[1], c[2]) /\ UNCHANGED FutOther
    \/ \E f \in Kids : \E o \in KidOutcomes(f) : FSet(f, o) /\ UNCHANGED FutOther
    \/ \E f \in Kids : \E o \in KidOutcomes(f) : FSetAgain(f, o) /\ UNCHANGED FutOther
    \/ \E f \in Kids, g \in Kids :
            f # g /\ IsDone(fut[g].res) /\ FSetAgain(f, fut[g].res) /\ UNCHANGED FutOther

SpecSet == WsInit /\ [][SetNext]_vars

\* ================================================================ C36
\* C36: once a future is done no step changes its outcome, and no continuation of it
\* is invoked a second time.
C36_DoneIsFinal ==
    [][\A f \in Kids : IsDone(fut[f].res) =>
            /\ fut'[f].res = fut[f].res
            /\ \A n \in 1..MaxConts : Cardinality(CallsOf(n, f))' <= 1]_vars

\* ---------------------------------------------------------------- the keep-alive future
KeepNext ==
    \/ \E b \in BridgeIds : \E kind \in KindsOf(b) : BridgeCall(b, kind) /\ UNCHANGED FutOther
    \/ \E b \in BridgeIds : \E o \in WorkOutcomes(bt[b].kind) :
            BridgeWork(b, o) /\ UNCHANGED FutOther
    \/ \E b \in BridgeIds : BridgeThen(b, "raise", "KI") /\ UNCHANGED FutOther
    \/ BridgeShutdown /\ UNCHANGED FutOther
    \/ BridgeCheck /\ UNCHANGED FutOther
    \/ BridgeReturn /\ UNCHANGED FutOther
    \/ LoopStop /\ UNCHANGED FutOther

SpecKeep == WsInit /\ [][KeepNext]_vars

\* the bridge tasks that keep the bridge open: made by bridgeTask, bridgeAsync or
\* bridgeConcurrent while the bridge was open, and not done
PendingTasks ==
    {b \in BridgeIds : bt[b].made /\ ~bt[b].late /\ bt[b].ret = b
                        /\ bt[b].kind # "timeout" /\ ~IsDone(fut[b].res)}

\* ================================================================ C37
\* C37: a __stopLoop call that runs with no active task always finds a keep-alive
\* future to resolve: none runs with zero active tasks after the future was cleared.
C37_StopLoopFindsFuture ==
    ~br.stopErr

\* ================================================================ C39
\* C39: the count of active tasks is the number of pending bridge tasks other than
\* timeouts, and while there is one the keep-alive future is there and unresolved.
C39_KeepAlive ==
    /\ br.active = Cardinality(PendingTasks)
    /\ PendingTasks # {} => br.keep = "pending"

\* a bridgeTask and a timeout are pending, the first counted, the second not
C39_Witness ==
    /\ \E b \in PendingTasks : bt[b].kind \in {"task", "async", "concurrent"}
    /\ \E b \in BridgeIds : bt[b].made /\ bt[b].kind = "timeout" /\ ~IsDone(fut[b].res)
    /\ br.active = 1

\* ---------------------------------------------------------------- the thread pool
ParNext ==
    \/ \E b \in BridgeIds : CallInBackground(b) /\ UNCHANGED FutOther
    \/ \E b \in BridgeIds : \E o \in WorkOutcomes(bt[b].kind) :
            BridgeWork(b, o) /\ UNCHANGED FutOther
    \/ \E b \in BridgeIds, c \in BridgeConts : BridgeThen(b, c[1], c[2]) /\ UNCHANGED FutOther
    \/ BridgeShutdown /\ UNCHANGED FutOther
    \/ BridgeCheck /\ UNCHANGED FutOther
    \/ BridgeReturn /\ UNCHANGED FutOther

SpecPar == WsInit /\ [][ParNext]_vars

\* ================================================================ C38
\* C38: callInBackground after the shutdown of the bridge returns a future that is
\* completed as a failure, so that an awaiting coroutine gets an exception raised and
\* no result value.
C38_FailsAfterShutdown ==
    \A b \in BridgeIds :
        bt[b].made /\ bt[b].kind = "background" /\ bt[b].late => IsFailed(fut[b].res)

\* ---------------------------------------------------------------- the stream reader
StreamNext ==
    \/ SrData /\ UNCHANGED StreamOther
    \/ SrClose /\ UNCHANGED StreamOther
    \/ \E r \in Readers : SrRead(r) /\ UNCHANGED StreamOther

SpecStream == WsInit /\ [][StreamNext]_vars

\* the chunks the reads have returned, in the order of the returns
Chunks(g) == SelectSeq(g, LAMBDA e : e.x # None)
ChunkValues(g) == [i \in DOMAIN Chunks(g) |-> Chunks(g)[i].x]

\* ================================================================ C40
\* C40: the chunks the reads returned followed by the buffered ones are the chunks
\* delivered, each once and in arrival order; a read returns None only at the end of
\* the stream with nothing buffered; at the end no read is left waiting, and
\* readAllBytes, when no other reader took part, has ended with all delivered chunks.
C40_StreamReads ==
    /\ ChunkValues(sr.got) \o sr.data = [i \in 1..sr.sent |-> i]
    /\ \A i \in DOMAIN sr.got : sr.got[i].x = None => sr.got[i].eof /\ sr.got[i].left = 0
    /\ sr.eof => sr.waiting = <<>>
    /\ sr.eof /\ sr.rd["ra"].reads = 1 => sr.rd["ra"].state = "done"
    /\ sr.rd["ra"].state = "done" /\ sr.rd["rb"].reads = 0 =>
            sr.rd["ra"].buf = [i \in 1..sr.sent |-> i]

\* readAllBytes has ended with every chunk the bound allows, after another reader
\* took none
C40_Witness ==
    /\ sr.rd["ra"].state = "done" /\ sr.rd["rb"].reads = 0
    /\ Len(sr.rd["ra"].buf) = MaxChunks

Spec == SpecDelta
====
